---- MODULE Spec2Model ----
(***************************************************************************)
(* A state-machine model of parts of the Boa ECMAScript engine:            *)
(*   - the ordinary object internal methods                                *)
(*     (core/engine/src/object/internal_methods/mod.rs),                   *)
(*   - the bytecode emitted for try statements and its execution           *)
(*     (core/engine/src/bytecompiler/statement/try.rs),                    *)
(*   - promise resolving functions (object/builtins/jspromise.rs),         *)
(*   - WeakRef and the kept-alive list (builtins/weak/weak_ref.rs),        *)
(*   - BigInt exponentiation (bigint.rs),                                  *)
(*   - RegExpBuiltinExec (builtins/regexp/mod.rs).                         *)
(* Each subsystem has its own specification (SpecProto, SpecObject, ...);  *)
(* the variables of the other subsystems stay at their idle values.        *)
(***************************************************************************)
EXTENDS Integers, Sequences, FiniteSets, TLC

VARIABLES
    prototype,      \* object -> object or Null       ([[Prototype]])
    extensible,     \* object -> BOOLEAN              ([[Extensible]])
    properties,     \* object -> key -> Option<PropertyDescriptor>
    call,           \* the internal-method call that ran last, with its arguments
    ret,            \* what that call returned
    \* --- a try statement, compiled and run ---
    try_variant,    \* "Catch", "Finally" or "CatchFinally"
    is_generator,   \* the try statement is compiled inside a generator
    use_expr,       \* the statement's completion value is used
    pc,             \* index of the next instruction; 0 when the frame is left
    registers,      \* register name -> value
    accumulator,    \* the completion value register
    pending_exception,  \* Option<exception>
    completion,     \* "running", "normal", "throw" or "return"
    blocks_run,     \* the try, catch and finally blocks run so far, in order
    block_outcomes, \* how each of them ended: "normal", "handled" (normal,
                    \* after catching an exception inside), a thrown value,
                    \* or "return"
    \* --- one promise, its resolving functions and its future ---
    promise,        \* [state, value, reactions] of the promise object
    already_resolved,   \* pair of resolving functions -> its shared flag
    pairs,          \* how many pairs of resolving functions exist
    running,        \* pair -> "none", "running", "returned": the executor
                    \* (pair 1) or the thenable's then (later pairs)
    jobs,           \* the job queue
    future,         \* [created, result] of into_js_future's shared state
    assert_failed,  \* a debug_assert! of into_js_future has failed
    pcall,          \* the last call of a resolving function
    \* --- weak references and the garbage collector ---
    alive,          \* the objects not yet collected
    roots,          \* the objects the program holds a strong reference to
    kept_alive,     \* context.kept_alive
    weak_refs,      \* WeakRef -> Option<target>; None before construction
    pinned,         \* WeakRefs constructed, or dereferenced to an object,
                    \* in the current turn
    survived,       \* objects without a root that a collection of the
                    \* current turn has passed over
    deref_ret,      \* the last deref: [ref, result]
    \* --- BigInt exponentiation ---
    pow_x,          \* the base
    pow_y,          \* the exponent
    pow_result,     \* None before the call, then Some(result of pow)
    \* --- one RegExp object ---
    original_flags, \* [global, sticky]
    last_index,     \* the own data property "lastIndex": [value, writable]
    exec_ret,        \* the last exec: its input length, result, and the
                    \* lastIndex it found
    \* --- equality of two values ---
    eq_x,           \* the left operand
    eq_y,           \* the right operand
    eq_strict,      \* Option<bool>: the result of x === y
    eq_loose,        \* Option<bool>: the result of x == y
    \* --- the property keys of two objects ---
    index_properties,   \* object -> its array-index keys, in storage order
    shape_keys,     \* object -> its string and symbol keys, in creation order
    history,        \* object -> the keys inserted so far, in order
    own_keys,        \* object -> Option<result of [[OwnPropertyKeys]]>
    \* --- the compilation of a try statement, call by call ---
    statement,      \* [variant, generator, use_expr] of the statement
    byte_compiler,  \* the code, labels, handlers and register allocator
    compiled,        \* how many calls of compile_try have been made
    \* --- promises combined by then, Promise.all and Promise.race ---
    promise_objects,    \* promise -> [state, value, reactions]
    job_queue,      \* the promise jobs not yet run, first in first out
    result_capability,  \* the resolving functions of the returned promise,
                    \* and the values and counters Promise.all shares
    handler_calls,  \* how many times a handler given to then has run
    processed,      \* the jobs run so far: [from, settled], in order
    combinator,     \* the call that made the returned promise, if any
    settle_log,     \* the inputs in the order in which they settled
    await_ret,       \* Option<what await_blocking returned>
    \* --- the parser of a parenthesised list ---
    cursor,         \* the tokens consumed after the opening parenthesis
    lookahead,      \* the token peeked after the closing parenthesis
    parse_pc,       \* where the parser is in the parse function
    expressions,    \* the InnerExpressions pushed so far
    tailing_comma,  \* a comma was found before the closing parenthesis
    parse_ret,       \* what parse returned
    \* --- [[Call]] and [[Construct]] through the internal-method table ---
    vtable,         \* object -> the name of its internal-method table
    call_value,      \* the internal method resolved last and what it returned
    \* --- a native function built from an FnMut closure ---
    signature,      \* the signature of the closure
    borrowed,       \* the RefCell around the closure is mutably borrowed
    invocations,    \* what each invocation that ended returned, in order
    in_closure,     \* an invocation is inside the closure
    panicked,        \* an invocation panicked
    \* --- a Set and an iterator over it ---
    entries,        \* the entries of the OrderedSet; a deleted entry stays as None
    set_iterator,   \* the fields of the SetIterator
    next_results,    \* what the calls of next() returned, in order
    \* --- RegExp.prototype[@@match] and [@@search] ---
    rx_flags,       \* [[OriginalFlags]]: global, sticky, unicode
    rx_last_index,  \* the own data property "lastIndex"
    rx_length,      \* the length of the input string of the running match
    rx_pc,          \* "idle", "loop" (inside the loop of match) or "done"
    rx_n,           \* the matches the loop has collected
    rx_empty,       \* how many of them matched the empty string
    rx_ret,          \* the method that ran last, what it returned, lastIndex
                    \* before a search, and the parity of the searches made
    \* --- the capture-count assertion of RegExpBuiltinExec ---
    capturing_groups_count, \* the capture groups of the pattern
    debug_assertions,       \* the build checks debug assertions
    assertions,             \* what the assertion evaluated to at each match
    exec_aborted,            \* an exec panicked on the assertion
    \* --- the parser of an export list ---
    export_cursor,  \* the tokens the parser has read
    export_pc,      \* where the parser is
    export_list,    \* the number of specifiers pushed to the list
    export_ret      \* what NamedExports::parse returned

objVars == <<prototype, extensible, properties, call, ret>>
tryVars == <<try_variant, is_generator, use_expr, pc, registers, accumulator,
             pending_exception, completion, blocks_run,
             block_outcomes>>
promiseVars == <<promise, already_resolved, pairs, running, jobs, future,
                 assert_failed, pcall>>
weakVars == <<alive, roots, kept_alive, weak_refs, pinned, survived,
              deref_ret>>
powVars == <<pow_x, pow_y, pow_result>>
regexpVars == <<original_flags, last_index, exec_ret>>
eqVars == <<eq_x, eq_y, eq_strict, eq_loose>>
keysVars == <<index_properties, shape_keys, history, own_keys>>
compileVars == <<statement, byte_compiler, compiled>>
combVars == <<promise_objects, job_queue, result_capability, handler_calls, processed, combinator, settle_log, await_ret>>
parenVars == <<cursor, lookahead, parse_pc, expressions, tailing_comma, parse_ret>>
callableVars == <<vtable, call_value>>
nativeVars == <<signature, borrowed, invocations, in_closure, panicked>>
setiterVars == <<entries, set_iterator, next_results>>
rxVars == <<rx_flags, rx_last_index, rx_length, rx_pc, rx_n, rx_empty, rx_ret>>
capturesVars == <<capturing_groups_count, debug_assertions, assertions, exec_aborted>>
exportVars == <<export_cursor, export_pc, export_list, export_ret>>
vars == <<objVars, tryVars, promiseVars, weakVars, powVars, regexpVars,
          eqVars, keysVars, compileVars, combVars, parenVars, callableVars,
          nativeVars, setiterVars, rxVars, capturesVars, exportVars>>
\* the variables an action of one subsystem leaves alone
notHeap == <<tryVars, promiseVars, weakVars, powVars, regexpVars, eqVars,
             keysVars, compileVars, combVars, parenVars, callableVars,
             nativeVars, setiterVars, rxVars, capturesVars, exportVars>>
notTry == <<objVars, promiseVars, weakVars, powVars, regexpVars, eqVars,
            keysVars, compileVars, combVars, parenVars, callableVars,
            nativeVars, setiterVars, rxVars, capturesVars, exportVars>>
notPromise == <<objVars, tryVars, weakVars, powVars, regexpVars, eqVars,
                keysVars, compileVars, combVars, parenVars, callableVars,
                nativeVars, setiterVars, rxVars, capturesVars, exportVars>>
notWeak == <<objVars, tryVars, promiseVars, powVars, regexpVars, eqVars,
             keysVars, compileVars, combVars, parenVars, callableVars,
             nativeVars, setiterVars, rxVars, capturesVars, exportVars>>
notPow == <<objVars, tryVars, promiseVars, weakVars, regexpVars, eqVars,
            keysVars, compileVars, combVars, parenVars, callableVars,
            nativeVars, setiterVars, rxVars, capturesVars, exportVars>>
notRegExp == <<objVars, tryVars, promiseVars, weakVars, powVars, eqVars,
               keysVars, compileVars, combVars, parenVars, callableVars,
               nativeVars, setiterVars, rxVars, capturesVars, exportVars>>
notEquality == <<objVars, tryVars, promiseVars, weakVars, powVars,
                 regexpVars, keysVars, compileVars, combVars, parenVars,
                 callableVars, nativeVars, setiterVars, rxVars,
                 capturesVars, exportVars>>
notKeys == <<objVars, tryVars, promiseVars, weakVars, powVars, regexpVars,
             eqVars, compileVars, combVars, parenVars, callableVars,
             nativeVars, setiterVars, rxVars, capturesVars, exportVars>>
notCompile == <<objVars, tryVars, promiseVars, weakVars, powVars,
                regexpVars, eqVars, keysVars, combVars, parenVars,
                callableVars, nativeVars, setiterVars, rxVars,
                capturesVars, exportVars>>
notCombinators == <<objVars, tryVars, promiseVars, weakVars, powVars,
                    regexpVars, eqVars, keysVars, compileVars, parenVars,
                    callableVars, nativeVars, setiterVars, rxVars,
                    capturesVars, exportVars>>
notParen == <<objVars, tryVars, promiseVars, weakVars, powVars, regexpVars,
              eqVars, keysVars, compileVars, combVars, callableVars,
              nativeVars, setiterVars, rxVars, capturesVars, exportVars>>
notCallable == <<objVars, tryVars, promiseVars, weakVars, powVars,
                 regexpVars, eqVars, keysVars, compileVars, combVars,
                 parenVars, nativeVars, setiterVars, rxVars, capturesVars,
                 exportVars>>
notNative == <<objVars, tryVars, promiseVars, weakVars, powVars,
               regexpVars, eqVars, keysVars, compileVars, combVars,
               parenVars, callableVars, setiterVars, rxVars, capturesVars,
               exportVars>>
notSetIter == <<objVars, tryVars, promiseVars, weakVars, powVars,
                regexpVars, eqVars, keysVars, compileVars, combVars,
                parenVars, callableVars, nativeVars, rxVars, capturesVars,
                exportVars>>
notRx == <<objVars, tryVars, promiseVars, weakVars, powVars, regexpVars,
           eqVars, keysVars, compileVars, combVars, parenVars,
           callableVars, nativeVars, setiterVars, capturesVars, exportVars>>
notCaptures == <<objVars, tryVars, promiseVars, weakVars, powVars,
                 regexpVars, eqVars, keysVars, compileVars, combVars,
                 parenVars, callableVars, nativeVars, setiterVars, rxVars,
                 exportVars>>
notExport == <<objVars, tryVars, promiseVars, weakVars, powVars,
               regexpVars, eqVars, keysVars, compileVars, combVars,
               parenVars, callableVars, nativeVars, setiterVars, rxVars,
               capturesVars>>

(***************************************************************************)
(* Bounds of the model.                                                    *)
(***************************************************************************)
NumObjects == 3

(***************************************************************************)
(* Option<T> is a set with at most one element.                            *)
(***************************************************************************)
None == {}
Some(x) == {x}
Unwrap(o) == CHOOSE x \in o : TRUE

(***************************************************************************)
(* Objects, keys and values.                                               *)
(***************************************************************************)
Null == 0
Objects == 1..NumObjects
Keys == {"k"}
Undefined == "undefined"
DataValues == {Undefined, "v1"}
\* The getter and the setter functions a script can install.
Getter == "getter"
Setter == "setter"
GetterFns == {Undefined, Getter}
SetterFns == {Undefined, Setter}
\* What the model's getter function returns when called.
GetterResult == "v1"

(***************************************************************************)
(* PropertyDescriptor: enumerable and configurable are Option<bool>; kind  *)
(* is Data {value, writable}, Accessor {get, set} or Generic, each field   *)
(* an Option.  The fields of the other kind are None.                      *)
(***************************************************************************)
Opt(S) == {None} \cup {Some(x) : x \in S}

DataDescriptors ==
    { [kind |-> "Data", value |-> v, writable |-> w, get |-> None, set |-> None,
       enumerable |-> e, configurable |-> c] :
        v \in Opt(DataValues), w \in Opt(BOOLEAN), e \in Opt(BOOLEAN), c \in Opt(BOOLEAN) }

AccessorDescriptors ==
    { [kind |-> "Accessor", value |-> None, writable |-> None, get |-> g, set |-> s,
       enumerable |-> e, configurable |-> c] :
        g \in Opt(GetterFns), s \in Opt(SetterFns), e \in Opt(BOOLEAN), c \in Opt(BOOLEAN) }

GenericDescriptors ==
    { [kind |-> "Generic", value |-> None, writable |-> None, get |-> None, set |-> None,
       enumerable |-> e, configurable |-> c] :
        e \in Opt(BOOLEAN), c \in Opt(BOOLEAN) }

\* A descriptor built from a script's attributes object is Data only if it has
\* a value or a writable field, Accessor only if it has a get or a set field.
AllDescriptors ==
    { d \in DataDescriptors : d.value # None \/ d.writable # None }
    \cup { d \in AccessorDescriptors : d.get # None \/ d.set # None }
    \cup GenericDescriptors

is_data_descriptor(d) == d.kind = "Data"
is_accessor_descriptor(d) == d.kind = "Accessor"
is_generic_descriptor(d) == d.kind = "Generic"
\* "every field in Desc is absent"
is_empty(d) == d.kind = "Generic" /\ d.enumerable = None /\ d.configurable = None

expect_configurable(d) == Unwrap(d.configurable)
expect_enumerable(d) == Unwrap(d.enumerable)
expect_writable(d) == Unwrap(d.writable)
expect_value(d) == Unwrap(d.value)
expect_get(d) == Unwrap(d.get)
expect_set(d) == Unwrap(d.set)

OrElse(o, dflt) == IF o = None THEN Some(dflt) ELSE o

\* "If the value of an attribute field of Desc is absent, the attribute of the
\* newly created property is set to its default value."
\* (A Data kind built from an accessor descriptor keeps none of its fields.)
into_data_defaulted(d) ==
    [kind |-> "Data",
     value |-> OrElse(d.value, Undefined), writable |-> OrElse(d.writable, FALSE),
     get |-> None, set |-> None,
     enumerable |-> OrElse(d.enumerable, FALSE),
     configurable |-> OrElse(d.configurable, FALSE)]

into_accessor_defaulted(d) ==
    [kind |-> "Accessor",
     value |-> None, writable |-> None,
     get |-> OrElse(d.get, Undefined), set |-> OrElse(d.set, Undefined),
     enumerable |-> OrElse(d.enumerable, FALSE),
     configurable |-> OrElse(d.configurable, FALSE)]

\* "For each field of Desc that is present, set the corresponding attribute of
\* the property named P of object O to the value of the field."
fill_with(current, d) ==
    [kind |-> current.kind,
     value |-> IF d.value # None THEN d.value ELSE current.value,
     writable |-> IF d.writable # None THEN d.writable ELSE current.writable,
     get |-> IF d.get # None THEN d.get ELSE current.get,
     set |-> IF d.set # None THEN d.set ELSE current.set,
     enumerable |-> IF d.enumerable # None THEN d.enumerable ELSE current.enumerable,
     configurable |-> IF d.configurable # None THEN d.configurable ELSE current.configurable]

\* The properties a stored own property can be: every field of its kind present.
StoredDescriptors ==
    { d \in DataDescriptors \cup AccessorDescriptors :
        /\ d.enumerable # None /\ d.configurable # None
        /\ (d.kind = "Data" => d.value # None /\ d.writable # None)
        /\ (d.kind = "Accessor" => d.get # None /\ d.set # None) }

\* properties.insert(key, desc)
insert(props, o, k, d) == [props EXCEPT ![o][k] = Some(d)]

(***************************************************************************)
(* Ordinary internal methods.  Each is an operator from the heap (props,   *)
(* proto, ext) and its arguments to its result and the heap it leaves.     *)
(***************************************************************************)

\* OrdinaryGetOwnProperty
ordinary_get_own_property(props, o, k) == props[o][k]

\* SameValue on the model's values (strings): equality.
same_value(a, b) == a = b

\* Step 6.a of ValidateAndApplyPropertyDescriptor: a change of kind is refused
\* when current is not configurable.
\* Mutant: the check is missing.
kind_change_refused_never(cur) == FALSE

kind_change_refused(cur) == ~expect_configurable(cur)

\* ValidateAndApplyPropertyDescriptor(O, P, extensible, Desc, current), with
\* O and P given; the result is [ok, props].
validate_and_apply_property_descriptor(props, o, k, ext, desc, current) ==
    IF current = None
    THEN \* 2. current is undefined
         IF ~ext
         THEN [ok |-> FALSE, props |-> props]
         ELSE [ok |-> TRUE,
               props |-> insert(props, o, k,
                                IF is_generic_descriptor(desc) \/ is_data_descriptor(desc)
                                THEN into_data_defaulted(desc)
                                ELSE into_accessor_defaulted(desc))]
    ELSE
    LET cur == Unwrap(current)
        reject == [ok |-> FALSE, props |-> props]
        accept == [ok |-> TRUE, props |-> props]
        apply(c) == [ok |-> TRUE, props |-> insert(props, o, k, fill_with(c, desc))]
    IN  \* 3. every field in Desc is absent
        IF is_empty(desc) THEN accept
        \* 4. current.[[Configurable]] is false
        ELSE IF /\ ~expect_configurable(cur)
                /\ \/ desc.configurable = Some(TRUE)
                   \/ (desc.enumerable # None
                       /\ Unwrap(desc.enumerable) # expect_enumerable(cur))
        THEN reject
        \* 5. generic: no further validation
        ELSE IF is_generic_descriptor(desc) THEN apply(cur)
        \* 6. data <-> accessor
        ELSE IF is_data_descriptor(cur) # is_data_descriptor(desc)
        THEN IF kind_change_refused(cur)
             THEN reject
             ELSE IF is_data_descriptor(cur)
                  THEN apply(into_accessor_defaulted(cur))
                  ELSE apply(into_data_defaulted(cur))
        \* 7. both data
        ELSE IF is_data_descriptor(cur) /\ is_data_descriptor(desc)
        THEN IF ~expect_configurable(cur) /\ ~expect_writable(cur)
             THEN IF desc.writable = Some(TRUE)
                  THEN reject
                  ELSE IF desc.value # None
                          /\ ~same_value(Unwrap(desc.value), expect_value(cur))
                  THEN reject
                  ELSE accept
             ELSE apply(cur)
        \* 8. both accessor
        ELSE IF ~expect_configurable(cur)
        THEN IF desc.set # None /\ ~same_value(Unwrap(desc.set), expect_set(cur))
             THEN reject
             ELSE IF desc.get # None /\ ~same_value(Unwrap(desc.get), expect_get(cur))
             THEN reject
             ELSE accept
        ELSE apply(cur)

\* Mutant: [[Extensible]] is not read, the object is taken to be extensible.
ordinary_define_own_property_ignores_extensible(props, ext, o, k, desc) ==
    validate_and_apply_property_descriptor(
        props, o, k, TRUE, desc, ordinary_get_own_property(props, o, k))

\* OrdinaryDefineOwnProperty
ordinary_define_own_property(props, ext, o, k, desc) ==
    validate_and_apply_property_descriptor(
        props, o, k, ext[o], desc, ordinary_get_own_property(props, o, k))

\* PropertyDescriptor { [[Value]]: V }
ValueDescriptor(v) ==
    [kind |-> "Data", value |-> Some(v), writable |-> None, get |-> None, set |-> None,
     enumerable |-> None, configurable |-> None]

\* CreateDataProperty(O, P, V): define { V, writable, enumerable, configurable }.
create_data_property(props, ext, o, k, v) ==
    ordinary_define_own_property(props, ext, o, k,
        [kind |-> "Data", value |-> Some(v), writable |-> Some(TRUE),
         get |-> None, set |-> None,
         enumerable |-> Some(TRUE), configurable |-> Some(TRUE)])

\* A receiver that is not an object (a primitive this value).
NotAnObject == Null
Receivers == Objects \cup {NotAnObject}

\* Step 3 of OrdinarySetWithOwnDescriptor (ownDesc is a data descriptor); the
\* result is [ok, props].
\* Mutant: neither [[Writable]] check is made.
set_with_data_descriptor_unchecked(props, ext, own_desc, k, v, receiver) ==
    IF receiver = NotAnObject THEN [ok |-> FALSE, props |-> props]
    ELSE IF ordinary_get_own_property(props, receiver, k) # None
    THEN IF is_accessor_descriptor(Unwrap(ordinary_get_own_property(props, receiver, k)))
         THEN [ok |-> FALSE, props |-> props]
         ELSE ordinary_define_own_property(props, ext, receiver, k, ValueDescriptor(v))
    ELSE create_data_property(props, ext, receiver, k, v)

\* Mutant: an existing writable property of the receiver is reported as set
\* without being redefined.
set_with_data_descriptor_no_store(props, ext, own_desc, k, v, receiver) ==
    IF ~expect_writable(own_desc) THEN [ok |-> FALSE, props |-> props]
    ELSE IF receiver = NotAnObject THEN [ok |-> FALSE, props |-> props]
    ELSE IF ordinary_get_own_property(props, receiver, k) # None
    THEN IF is_accessor_descriptor(Unwrap(ordinary_get_own_property(props, receiver, k)))
         THEN [ok |-> FALSE, props |-> props]
         ELSE IF ~expect_writable(Unwrap(ordinary_get_own_property(props, receiver, k)))
         THEN [ok |-> FALSE, props |-> props]
         ELSE [ok |-> TRUE, props |-> props]
    ELSE create_data_property(props, ext, receiver, k, v)

set_with_data_descriptor(props, ext, own_desc, k, v, receiver) ==
    LET no == [ok |-> FALSE, props |-> props] IN
    \* 3.a. If ownDesc.[[Writable]] is false, return false.
    IF ~expect_writable(own_desc) THEN no
    \* 3.b. If Type(Receiver) is not Object, return false.
    ELSE IF receiver = NotAnObject THEN no
    ELSE LET existing == ordinary_get_own_property(props, receiver, k) IN
         \* 3.d. existingDescriptor is not undefined
         IF existing # None
         THEN IF is_accessor_descriptor(Unwrap(existing)) THEN no
              ELSE IF ~expect_writable(Unwrap(existing)) THEN no
              ELSE ordinary_define_own_property(props, ext, receiver, k,
                                                ValueDescriptor(v))
         \* 3.e. CreateDataProperty(Receiver, P, V)
         ELSE create_data_property(props, ext, receiver, k, v)

\* OrdinarySet / OrdinarySetWithOwnDescriptor; the result is [ok, props].
\* Calling the model's setter function changes nothing and returns normally.
RECURSIVE ordinary_set(_, _, _, _, _, _, _)
ordinary_set(props, proto, ext, o, k, v, receiver) ==
    LET own == ordinary_get_own_property(props, o, k) IN
    IF own = None /\ proto[o] # Null
    THEN \* 2.b.i. Return ? parent.[[Set]](P, V, Receiver).
         ordinary_set(props, proto, ext, proto[o], k, v, receiver)
    ELSE
    LET own_desc ==
            IF own # None THEN Unwrap(own)
            ELSE [kind |-> "Data", value |-> Some(Undefined), writable |-> Some(TRUE),
                  get |-> None, set |-> None,
                  enumerable |-> Some(TRUE), configurable |-> Some(TRUE)]
    IN  IF is_data_descriptor(own_desc)
        THEN set_with_data_descriptor(props, ext, own_desc, k, v, receiver)
        ELSE \* 5-8. accessor
             IF own_desc.set # None /\ expect_set(own_desc) # Undefined
             THEN [ok |-> TRUE, props |-> props]
             ELSE [ok |-> FALSE, props |-> props]

\* OrdinaryGet; the result is the value.
RECURSIVE ordinary_get(_, _, _, _, _)
ordinary_get(props, proto, o, k, receiver) ==
    LET own == ordinary_get_own_property(props, o, k) IN
    IF own = None
    THEN IF proto[o] # Null
         THEN ordinary_get(props, proto, proto[o], k, receiver)
         ELSE Undefined
    ELSE LET desc == Unwrap(own) IN
         IF is_data_descriptor(desc) /\ desc.value # None
         THEN expect_value(desc)
         ELSE IF is_accessor_descriptor(desc) /\ desc.get # None
                 /\ expect_get(desc) # Undefined
         THEN GetterResult
         ELSE Undefined

\* OrdinaryDelete; the result is [ok, props].
ordinary_delete(props, o, k) ==
    LET desc == ordinary_get_own_property(props, o, k) IN
    IF desc = None THEN [ok |-> TRUE, props |-> props]
    ELSE IF expect_configurable(Unwrap(desc))
    THEN [ok |-> TRUE, props |-> [props EXCEPT ![o][k] = None]]
    ELSE [ok |-> FALSE, props |-> props]

\* Every object of the model is an ordinary object: its [[GetPrototypeOf]] is
\* ordinary_get_prototype_of.
HasOrdinaryGetPrototypeOf(p) == p \in Objects

\* Steps 6-8 of OrdinarySetPrototypeOf: TRUE when the walk from p finds O.
RECURSIVE ProtoWalkFinds(_, _, _)
ProtoWalkFinds(proto, p, o) ==
    IF p = Null THEN FALSE
    ELSE IF p = o THEN TRUE
    ELSE IF ~HasOrdinaryGetPrototypeOf(p) THEN FALSE
    ELSE ProtoWalkFinds(proto, proto[p], o)

\* Mutant: only V = O is refused, the walk along V's chain is skipped.
ordinary_set_prototype_of_no_walk(proto, ext, o, v) ==
    IF v = proto[o] THEN [ok |-> TRUE, proto |-> proto]
    ELSE IF ~ext[o] THEN [ok |-> FALSE, proto |-> proto]
    ELSE IF v = o THEN [ok |-> FALSE, proto |-> proto]
    ELSE [ok |-> TRUE, proto |-> [proto EXCEPT ![o] = v]]

\* OrdinarySetPrototypeOf; the result is [ok, proto].
ordinary_set_prototype_of(proto, ext, o, v) ==
    IF v = proto[o] THEN [ok |-> TRUE, proto |-> proto]
    ELSE IF ~ext[o] THEN [ok |-> FALSE, proto |-> proto]
    ELSE IF ProtoWalkFinds(proto, v, o) THEN [ok |-> FALSE, proto |-> proto]
    ELSE [ok |-> TRUE, proto |-> [proto EXCEPT ![o] = v]]

(***************************************************************************)
(* Idle values of the variables of a subsystem a specification leaves out. *)
(***************************************************************************)
IdleTry ==
    /\ try_variant = "none"
    /\ is_generator = FALSE
    /\ use_expr = FALSE
    /\ pc = 0
    /\ registers = <<>>
    /\ accumulator = "-"
    /\ pending_exception = {}
    /\ completion = "idle"
    /\ blocks_run = <<>>
    /\ block_outcomes = <<>>


IdlePromise ==
    /\ promise = [state |-> "Pending", value |-> "undefined", reactions |-> FALSE]
    /\ already_resolved = <<>>
    /\ pairs = 0
    /\ running = <<>>
    /\ jobs = <<>>
    /\ future = [created |-> FALSE, result |-> {}]
    /\ assert_failed = FALSE
    /\ pcall = [fn |-> "-", pair |-> 0, arg |-> "-", was_resolved |-> FALSE,
                n |-> 0]

IdleWeak ==
    /\ alive = {}
    /\ roots = {}
    /\ kept_alive = <<>>
    /\ weak_refs = <<>>
    /\ pinned = {}
    /\ survived = {}
    /\ deref_ret = [ref |-> "-", result |-> {}, was_pinned |-> FALSE,
                    passed_over |-> FALSE, n |-> 0]

IdlePow ==
    /\ pow_x = 0
    /\ pow_y = 0
    /\ pow_result = {}

IdleRegExp ==
    /\ original_flags = [global |-> FALSE, sticky |-> FALSE]
    /\ last_index = [value |-> [kind |-> "int", n |-> 0], writable |-> TRUE]
    /\ exec_ret = [result |-> "-", length |-> 0,
                   before |-> [kind |-> "int", n |-> 0], n |-> 0]

IdleEquality ==
    /\ eq_x = "-"
    /\ eq_y = "-"
    /\ eq_strict = {}
    /\ eq_loose = {}

IdleKeys ==
    /\ index_properties = <<>>
    /\ shape_keys = <<>>
    /\ history = <<>>
    /\ own_keys = <<>>

IdleCompile ==
    /\ statement = "-"
    /\ byte_compiler = "-"
    /\ compiled = 0

IdleCombinators ==
    /\ promise_objects = <<>>
    /\ job_queue = <<>>
    /\ result_capability = "-"
    /\ handler_calls = 0
    /\ processed = <<>>
    /\ combinator = "-"
    /\ settle_log = <<>>
    /\ await_ret = {}

IdleParen ==
    /\ cursor = <<>>
    /\ lookahead = "-"
    /\ parse_pc = "-"
    /\ expressions = <<>>
    /\ tailing_comma = FALSE
    /\ parse_ret = "-"

IdleCallable ==
    /\ vtable = <<>>
    /\ call_value = <<>>

IdleNative ==
    /\ signature = "-"
    /\ borrowed = FALSE
    /\ invocations = <<>>
    /\ in_closure = FALSE
    /\ panicked = FALSE

IdleSetIter ==
    /\ entries = <<>>
    /\ set_iterator = <<>>
    /\ next_results = <<>>

IdleRx ==
    /\ rx_flags = <<>>
    /\ rx_last_index = <<>>
    /\ rx_length = 0
    /\ rx_pc = "-"
    /\ rx_n = 0
    /\ rx_empty = 0
    /\ rx_ret = <<>>

IdleCaptures ==
    /\ capturing_groups_count = <<>>
    /\ debug_assertions = FALSE
    /\ assertions = <<>>
    /\ exec_aborted = FALSE

IdleExport ==
    /\ export_cursor = <<>>
    /\ export_pc = "-"
    /\ export_list = 0
    /\ export_ret = "-"

(***************************************************************************)
(* The object heap as a state machine.  call records the internal method   *)
(* that ran last and its arguments, ret what it returned.                  *)
(***************************************************************************)
NoValue == "-"
NoCall ==
    [op |-> "none", obj |-> Null, key |-> NoValue, value |-> NoValue,
     receiver |-> Null, proto |-> Null, desc |-> None]

InitHeap ==
    /\ prototype = [o \in Objects |-> Null]
    /\ extensible = [o \in Objects |-> TRUE]
    /\ properties = [o \in Objects |-> [k \in Keys |-> None]]
    /\ call = NoCall
    /\ ret = FALSE

IdleHeap == InitHeap

\* every subsystem but one at its idle values
Idle(subsystem) ==
    /\ IF subsystem = "heap" THEN TRUE ELSE IdleHeap
    /\ IF subsystem = "try" THEN TRUE ELSE IdleTry
    /\ IF subsystem = "promise" THEN TRUE ELSE IdlePromise
    /\ IF subsystem = "weak" THEN TRUE ELSE IdleWeak
    /\ IF subsystem = "pow" THEN TRUE ELSE IdlePow
    /\ IF subsystem = "regexp" THEN TRUE ELSE IdleRegExp
    /\ IF subsystem = "eq" THEN TRUE ELSE IdleEquality
    /\ IF subsystem = "keys" THEN TRUE ELSE IdleKeys
    /\ IF subsystem = "compile" THEN TRUE ELSE IdleCompile
    /\ IF subsystem = "comb" THEN TRUE ELSE IdleCombinators
    /\ IF subsystem = "paren" THEN TRUE ELSE IdleParen
    /\ IF subsystem = "callable" THEN TRUE ELSE IdleCallable
    /\ IF subsystem = "native" THEN TRUE ELSE IdleNative
    /\ IF subsystem = "setiter" THEN TRUE ELSE IdleSetIter
    /\ IF subsystem = "rx" THEN TRUE ELSE IdleRx
    /\ IF subsystem = "captures" THEN TRUE ELSE IdleCaptures
    /\ IF subsystem = "export" THEN TRUE ELSE IdleExport

\* Reflect.setPrototypeOf(target, proto) -> target.[[SetPrototypeOf]](proto)
SetPrototypeOf(o, v) ==
    LET r == ordinary_set_prototype_of(prototype, extensible, o, v) IN
    /\ prototype' = r.proto
    /\ call' = [NoCall EXCEPT !.op = "setPrototypeOf", !.obj = o, !.proto = v]
    /\ ret' = r.ok
    /\ UNCHANGED <<extensible, properties>>
    /\ UNCHANGED notHeap

\* O.[[PreventExtensions]]()
PreventExtensions(o) ==
    /\ extensible' = [extensible EXCEPT ![o] = FALSE]
    /\ call' = [NoCall EXCEPT !.op = "preventExtensions", !.obj = o]
    /\ ret' = TRUE
    /\ UNCHANGED <<prototype, properties>>
    /\ UNCHANGED notHeap

\* O.[[DefineOwnProperty]](P, Desc); record says whether call keeps Desc.
DefineOwnProperty(o, k, desc, record) ==
    LET r == ordinary_define_own_property(properties, extensible, o, k, desc) IN
    /\ properties' = r.props
    /\ call' = [NoCall EXCEPT !.op = "defineOwnProperty", !.obj = o, !.key = k,
                              !.desc = IF record THEN Some(desc) ELSE None]
    /\ ret' = r.ok
    /\ UNCHANGED <<prototype, extensible>>
    /\ UNCHANGED notHeap

\* O.[[Set]](P, V, Receiver)
Set(o, k, v, receiver) ==
    LET r == ordinary_set(properties, prototype, extensible, o, k, v, receiver) IN
    /\ properties' = r.props
    /\ call' = [NoCall EXCEPT !.op = "set", !.obj = o, !.key = k, !.value = v,
                              !.receiver = receiver]
    /\ ret' = r.ok
    /\ UNCHANGED <<prototype, extensible>>
    /\ UNCHANGED notHeap

\* O.[[Get]](P, Receiver)
Get(o, k, receiver) ==
    /\ call' = [NoCall EXCEPT !.op = "get", !.obj = o, !.key = k, !.receiver = receiver]
    /\ ret' = ordinary_get(properties, prototype, o, k, receiver)
    /\ UNCHANGED <<prototype, extensible, properties>>
    /\ UNCHANGED notHeap

\* O.[[Delete]](P)
Delete(o, k) ==
    LET r == ordinary_delete(properties, o, k) IN
    /\ properties' = r.props
    /\ call' = [NoCall EXCEPT !.op = "delete", !.obj = o, !.key = k]
    /\ ret' = r.ok
    /\ UNCHANGED <<prototype, extensible>>
    /\ UNCHANGED notHeap

(***************************************************************************)
(* SpecProto: prototype links and extensibility of NumObjects objects.     *)
(***************************************************************************)
NextProto ==
    \/ \E o \in Objects, v \in Objects \cup {Null} : SetPrototypeOf(o, v)
    \/ \E o \in Objects : PreventExtensions(o)

InitProto == InitHeap /\ Idle("heap")

SpecProto ==
    InitProto /\ [][NextProto]_vars

\* The objects met by following at most n prototype links from p, p included.
RECURSIVE ChainWithin(_, _, _)
ChainWithin(proto, p, n) ==
    IF p = Null \/ n = 0 THEN {}
    ELSE {p} \cup ChainWithin(proto, proto[p], n - 1)

ReachableFrom(proto, v, o) == o \in ChainWithin(proto, v, NumObjects)

Acyclic == \A o \in Objects : ~ReachableFrom(prototype, prototype[o], o)

\* C1: no sequence of [[SetPrototypeOf]] calls makes a prototype chain cyclic,
\* and O.[[SetPrototypeOf]](V) returns false and leaves every prototype link
\* unchanged whenever O is reachable from V by following prototype links.
C1_NoPrototypeCycle ==
    /\ []Acyclic
    /\ [][(call'.op = "setPrototypeOf"
            /\ ReachableFrom(prototype, call'.proto, call'.obj))
           => (ret' = FALSE /\ prototype' = prototype)]_objVars

\* C1 witness: an extensible object refused a prototype from whose chain it is
\* reached through an intermediate object.
C1_Witness ==
    /\ call.op = "setPrototypeOf"
    /\ ret = FALSE
    /\ extensible[call.obj]
    /\ call.proto # Null
    /\ call.proto # call.obj
    /\ prototype[call.proto] # call.obj
    /\ ReachableFrom(prototype, call.proto, call.obj)

(***************************************************************************)
(* SpecObject: properties, extensibility and prototype links of the        *)
(* objects in PropertyObjects.                                             *)
(***************************************************************************)
PropertyObjects == {1, 2}
\* [[Set]] and [[Get]] never read [[Enumerable]]: the descriptors defined here
\* all carry enumerable: true (SpecDefine covers every descriptor).
EnumerableDescriptors == { d \in AllDescriptors : d.enumerable = Some(TRUE) }

NextObject ==
    \/ \E o \in PropertyObjects, v \in PropertyObjects \cup {Null} : SetPrototypeOf(o, v)
    \/ \E o \in PropertyObjects : PreventExtensions(o)
    \/ \E o \in PropertyObjects, k \in Keys, desc \in EnumerableDescriptors :
            DefineOwnProperty(o, k, desc, FALSE)
    \/ \E o \in PropertyObjects, k \in Keys, v \in DataValues,
          receiver \in PropertyObjects \cup {NotAnObject} : Set(o, k, v, receiver)
    \/ \E o \in PropertyObjects, k \in Keys : Get(o, k, o)
    \/ \E o \in PropertyObjects, k \in Keys : Delete(o, k)

InitObject == InitHeap /\ Idle("heap")

SpecObject ==
    InitObject /\ [][NextObject]_vars

OwnKeys(props, o) == { k \in Keys : props[o][k] # None }

\* The same heap with every object extensible.
AllExtensible == [o \in Objects |-> TRUE]

\* The [[Set]] call would add key k to its receiver were the receiver
\* extensible: the receiver lacks k, and the lookup along o's chain ends at no
\* accessor and at no non-writable data property.
SetWouldAdd(props, proto, o, k, v, receiver) ==
    /\ receiver \in Objects
    /\ props[receiver][k] = None
    /\ ordinary_set(props, proto, AllExtensible, o, k, v, receiver).props[receiver][k] # None

\* C2: once an object is not extensible, no step adds an own key to it; a
\* [[DefineOwnProperty]] of a key it lacks, and a [[Set]] that would add a key
\* to it, return false and leave its properties unchanged.
C2_NonExtensibleGainsNoProperty ==
    [][/\ \A o \in Objects :
              ~extensible[o] => OwnKeys(properties', o) \subseteq OwnKeys(properties, o)
       /\ (/\ call'.op = "defineOwnProperty"
           /\ ~extensible[call'.obj]
           /\ properties[call'.obj][call'.key] = None)
          => (ret' = FALSE /\ properties' = properties)
       /\ (/\ call'.op = "set"
           /\ call'.receiver \in Objects
           /\ ~extensible[call'.receiver]
           /\ SetWouldAdd(properties, prototype, call'.obj, call'.key, call'.value,
                          call'.receiver))
          => (ret' = FALSE /\ properties' = properties)
      ]_objVars

\* C2 witness: a [[Set]] on a non-extensible object that lacks the key, and
\* that would have added it, returned false.
C2_Witness ==
    /\ call.op = "set"
    /\ call.receiver = call.obj
    /\ ~extensible[call.obj]
    /\ SetWouldAdd(properties, prototype, call.obj, call.key, call.value, call.receiver)
    /\ ret = FALSE

IsNonWritableData(p) ==
    p # None /\ is_data_descriptor(Unwrap(p)) /\ ~expect_writable(Unwrap(p))
IsWritableData(p) ==
    p # None /\ is_data_descriptor(Unwrap(p)) /\ expect_writable(Unwrap(p))
IsData(p) == p # None /\ is_data_descriptor(Unwrap(p))

\* C3: O.[[Set]](K, V, O) on an own non-writable data property K returns false
\* and K keeps its descriptor, value included.
C3_NonWritableNotReassigned ==
    [][(/\ call'.op = "set"
        /\ call'.receiver = call'.obj
        /\ IsNonWritableData(properties[call'.obj][call'.key]))
       => (/\ ret' = FALSE
           /\ properties'[call'.obj][call'.key] = properties[call'.obj][call'.key])
      ]_objVars

\* C3 witness: a [[Set]] of another value on an own non-writable, configurable
\* data property returned false.
C3_Witness ==
    /\ call.op = "set"
    /\ call.receiver = call.obj
    /\ IsNonWritableData(properties[call.obj][call.key])
    /\ expect_configurable(Unwrap(properties[call.obj][call.key]))
    /\ expect_value(Unwrap(properties[call.obj][call.key])) # call.value
    /\ ret = FALSE

\* C5 as stated: for an own data property K of O, Get(O, K) right after
\* Set(O, K, V) returns V.
C5_GetAfterSet_AnyDataProperty ==
    [][(/\ call'.op = "set"
        /\ call'.receiver = call'.obj
        /\ IsData(properties[call'.obj][call'.key]))
       => ordinary_get(properties', prototype', call'.obj, call'.key, call'.obj)
              = call'.value
      ]_objVars

\* C5 amended: for an own writable data property K of O, Set(O, K, V) returns
\* true and Get(O, K) right after it returns V.
C5_GetAfterSet_WritableDataProperty ==
    [][(/\ call'.op = "set"
        /\ call'.receiver = call'.obj
        /\ IsWritableData(properties[call'.obj][call'.key]))
       => (/\ ret' = TRUE
           /\ ordinary_get(properties', prototype', call'.obj, call'.key, call'.obj)
                  = call'.value)
      ]_objVars

\* C5 witness: Set(O, K, "v1") succeeded on a property O already had (O is not
\* extensible, so the call did not create it) and K now holds "v1".
C5_Witness ==
    /\ call.op = "set"
    /\ call.receiver = call.obj
    /\ ret = TRUE
    /\ ~extensible[call.obj]
    /\ call.value = "v1"
    /\ IsWritableData(properties[call.obj][call.key])
    /\ ordinary_get(properties, prototype, call.obj, call.key, call.obj) = "v1"

(***************************************************************************)
(* SpecDefine: [[DefineOwnProperty]] with every descriptor on one object,  *)
(* the descriptor kept in call.                                            *)
(***************************************************************************)
DefineObject == CHOOSE o \in Objects : \A p \in Objects : o <= p

NextDefine ==
    \/ \E k \in Keys, desc \in AllDescriptors :
            DefineOwnProperty(DefineObject, k, desc, TRUE)
    \/ PreventExtensions(DefineObject)
    \/ \E k \in Keys : Delete(DefineObject, k)

InitDefine == InitHeap /\ Idle("heap")

SpecDefine ==
    InitDefine /\ [][NextDefine]_vars

\* Desc asks for a change that a non-configurable current property forbids.
ForbiddenRequest(cur, desc) ==
    \/ desc.configurable = Some(TRUE)
    \/ (desc.enumerable # None /\ desc.enumerable # cur.enumerable)
    \/ (~is_generic_descriptor(desc) /\ desc.kind # cur.kind)
    \/ /\ is_data_descriptor(cur) /\ ~expect_writable(cur) /\ is_data_descriptor(desc)
       /\ \/ desc.writable = Some(TRUE)
          \/ (desc.value # None /\ desc.value # cur.value)

\* C4: [[DefineOwnProperty]] on an existing non-configurable own property
\* keeps its configurable and enumerable attributes and its kind, keeps value
\* and writable of a non-writable data property, and returns false, leaving
\* the property unchanged, when asked for any of these changes.
C4_NonConfigurableKept ==
    [][(/\ call'.op = "defineOwnProperty"
        /\ properties[call'.obj][call'.key] # None
        /\ ~expect_configurable(Unwrap(properties[call'.obj][call'.key])))
       => LET cur == Unwrap(properties[call'.obj][call'.key])
              new == properties'[call'.obj][call'.key]
              desc == Unwrap(call'.desc)
          IN  /\ new # None
              /\ Unwrap(new).configurable = cur.configurable
              /\ Unwrap(new).enumerable = cur.enumerable
              /\ Unwrap(new).kind = cur.kind
              /\ (is_data_descriptor(cur) /\ ~expect_writable(cur))
                 => (Unwrap(new).value = cur.value /\ Unwrap(new).writable = cur.writable)
              /\ ForbiddenRequest(cur, desc)
                 => (ret' = FALSE /\ properties' = properties)
      ]_objVars

\* C4 witness: a request to turn a non-configurable data property into an
\* accessor was refused.
C4_Witness ==
    /\ call.op = "defineOwnProperty"
    /\ ret = FALSE
    /\ properties[call.obj][call.key] # None
    /\ ~expect_configurable(Unwrap(properties[call.obj][call.key]))
    /\ is_data_descriptor(Unwrap(properties[call.obj][call.key]))
    /\ is_accessor_descriptor(Unwrap(call.desc))
    /\ Unwrap(call.desc).configurable # Some(TRUE)
    /\ Unwrap(call.desc).enumerable = None

(***************************************************************************)
(* The try statement.  compile_try emits a flat instruction sequence and   *)
(* a handler table; the operators below build both in the order the        *)
(* compiler emits them, patching jump targets as patch_jump does.  The     *)
(* try, catch and finally blocks are single Block instructions: what       *)
(* matters of a block here is that it runs and either completes or throws. *)
(***************************************************************************)
TryVariants == {"Catch", "Finally", "CatchFinally"}

finaly_re_throw_register(variant) ==
    IF variant = "Catch" THEN None ELSE Some("finally_re_throw")

Instr(op, reg, target, block, use) ==
    [op |-> op, reg |-> reg, target |-> target, block |-> block, use |-> use]

emit_push_true(r) == Instr("PushTrue", r, 0, "-", FALSE)
emit_push_false(r) == Instr("PushFalse", r, 0, "-", FALSE)
emit_exception(r) == Instr("Exception", r, 0, "-", FALSE)
emit_throw(r) == Instr("Throw", r, 0, "-", FALSE)
emit_re_throw == Instr("ReThrow", "-", 0, "-", FALSE)
emit_set_register_from_accumulator(r) ==
    Instr("SetRegisterFromAccumulator", r, 0, "-", FALSE)
emit_set_accumulator(r) == Instr("SetAccumulator", r, 0, "-", FALSE)
compile_block(block, use) == Instr("Block", "-", 0, block, use)

\* The compiler as the sequence of calls it makes on the ByteCompiler; each
\* call is a step applied to the code, the labels and the handler table.
NoInstr == Instr("-", "-", 0, "-", FALSE)
emit(instr) == [cmd |-> "emit", instr |-> instr, label |-> "-"]
jump(label) ==
    [cmd |-> "jump", instr |-> Instr("Jump", "-", 0, "-", FALSE),
     label |-> label]
jump_if_false(r, label) ==
    [cmd |-> "jump", instr |-> Instr("JumpIfFalse", r, 0, "-", FALSE),
     label |-> label]
jump_if_true(r, label) ==
    [cmd |-> "jump", instr |-> Instr("JumpIfTrue", r, 0, "-", FALSE),
     label |-> label]
patch_jump(label) == [cmd |-> "patch_jump", instr |-> NoInstr, label |-> label]
push_handler(label) ==
    [cmd |-> "push_handler", instr |-> NoInstr, label |-> label]
patch_handler(label) ==
    [cmd |-> "patch_handler", instr |-> NoInstr, label |-> label]
\* register_allocator.alloc() and register_allocator.dealloc(r); the
\* register is named after the variable the compiler binds it to
alloc(r) ==
    [cmd |-> "alloc", instr |-> Instr("-", r, 0, "-", FALSE), label |-> "-"]
dealloc(r) ==
    [cmd |-> "dealloc", instr |-> Instr("-", r, 0, "-", FALSE), label |-> "-"]

Labels == {"finally", "no_throw", "do_not_throw_exit", "is_generator_exit",
           "try_handler", "catch_handler"}
EmptyByteCompiler ==
    [code |-> <<>>, labels |-> [l \in Labels |-> 0], handlers |-> <<>>,
     register_allocator |-> <<>>]

next_opcode_location(bc) == Len(bc.code) + 1

\* One call on the ByteCompiler.  A handler covers [start, end) and its
\* handler address is end; a label is the address of the jump to patch, or
\* the index of the handler to patch.  The register allocator is the list
\* of the registers granted and not yet returned, in the order of granting.
apply_step(bc, step) ==
    CASE step.cmd = "emit" ->
            [bc EXCEPT !.code = Append(@, step.instr)]
      [] step.cmd = "jump" ->
            [bc EXCEPT !.code = Append(@, step.instr),
                       !.labels[step.label] = next_opcode_location(bc)]
      [] step.cmd = "patch_jump" ->
            [bc EXCEPT !.code[bc.labels[step.label]].target =
                            next_opcode_location(bc)]
      [] step.cmd = "push_handler" ->
            [bc EXCEPT !.handlers = Append(@, [start |-> next_opcode_location(bc),
                                               end |-> next_opcode_location(bc)]),
                       !.labels[step.label] = Len(bc.handlers) + 1]
      [] step.cmd = "alloc" ->
            [bc EXCEPT !.register_allocator = Append(@, step.instr.reg)]
      [] step.cmd = "dealloc" ->
            [bc EXCEPT !.register_allocator =
                SelectSeq(@, LAMBDA r : r # step.instr.reg)]
      [] OTHER ->
            [bc EXCEPT !.handlers[bc.labels[step.label]].end =
                            next_opcode_location(bc)]

RECURSIVE apply_steps(_, _)
apply_steps(bc, steps) ==
    IF steps = <<>> THEN bc
    ELSE apply_steps(apply_step(bc, Head(steps)), Tail(steps))

compile_catch_finally_block(block, use) == <<emit(compile_block(block, use))>>

compile_catch_stmt(error, use) == compile_catch_finally_block("catch", use)

compile_finally_stmt ==
    <<alloc("value"),
      emit(emit_set_register_from_accumulator("value"))>>
        \o compile_catch_finally_block("finally", FALSE)
        \o <<emit(emit_set_accumulator("value")),
             dealloc("value")>>

\* Lines 29-57: what every variant emits before the match on the variant.
compile_try_block(variant, use) ==
    (IF variant = "Catch" THEN <<>>
     ELSE <<alloc("finally_re_throw"),
            emit(emit_push_true("finally_re_throw"))>>)
    \o <<push_handler("try_handler"),
         emit(compile_block("try", use))>>
    \o (IF finaly_re_throw_register(variant) # None
        THEN <<emit(emit_push_false(
                        Unwrap(finaly_re_throw_register(variant))))>>
        ELSE <<>>)
    \o <<jump("finally"),
         patch_handler("try_handler")>>

compile_try_catch(use) ==
    compile_try_block("Catch", use)
    \o <<alloc("error"),
         emit(emit_exception("error"))>>
    \o compile_catch_stmt("error", use)
    \o <<dealloc("error"),
         patch_jump("finally")>>

\* The catch+finally variant without its catch_handler (lines 68, 75).
compile_try_catch_finally_no_catch_handler(use) ==
    compile_try_block("CatchFinally", use)
    \o <<alloc("error"),
         emit(emit_exception("error"))>>
    \o compile_catch_stmt("error", use)
    \o <<emit(emit_push_false("finally_re_throw")),
         jump("no_throw"),
         emit(emit_push_true("finally_re_throw")),
         patch_jump("no_throw"),
         patch_jump("finally")>>
    \o compile_finally_stmt
    \o <<dealloc("error"),
         jump_if_false("finally_re_throw", "do_not_throw_exit"),
         emit(emit_re_throw),
         patch_jump("do_not_throw_exit"),
         dealloc("finally_re_throw")>>

compile_try_catch_finally(use) ==
    compile_try_block("CatchFinally", use)
    \o <<push_handler("catch_handler"),
         alloc("error"),
         emit(emit_exception("error"))>>
    \o compile_catch_stmt("error", use)
    \o <<emit(emit_push_false("finally_re_throw")),
         jump("no_throw"),
         patch_handler("catch_handler"),
         emit(emit_push_true("finally_re_throw")),
         patch_jump("no_throw"),
         patch_jump("finally")>>
    \o compile_finally_stmt
    \o <<dealloc("error"),
         jump_if_false("finally_re_throw", "do_not_throw_exit"),
         emit(emit_re_throw),
         patch_jump("do_not_throw_exit"),
         dealloc("finally_re_throw")>>

compile_try_finally_generator(use) ==
    compile_try_block("Finally", use)
    \o <<push_handler("catch_handler"),
         alloc("error"),
         emit(emit_exception("error")),
         alloc("re_throw_generator"),
         emit(emit_push_false("re_throw_generator")),
         emit(emit_push_true("finally_re_throw")),
         jump("no_throw"),
         patch_handler("catch_handler"),
         emit(emit_push_true("re_throw_generator")),
         patch_jump("no_throw"),
         patch_jump("finally")>>
    \o compile_finally_stmt
    \o <<jump_if_false("finally_re_throw", "do_not_throw_exit"),
         jump_if_true("re_throw_generator", "is_generator_exit"),
         emit(emit_throw("error")),
         dealloc("error"),
         patch_jump("is_generator_exit"),
         emit(emit_re_throw),
         patch_jump("do_not_throw_exit"),
         dealloc("re_throw_generator"),
         dealloc("finally_re_throw")>>

compile_try_finally(use) ==
    compile_try_block("Finally", use)
    \o <<push_handler("catch_handler"),
         alloc("error"),
         emit(emit_exception("error")),
         emit(emit_push_true("finally_re_throw")),
         jump("no_throw"),
         patch_handler("catch_handler"),
         patch_jump("no_throw"),
         patch_jump("finally")>>
    \o compile_finally_stmt
    \o <<jump_if_false("finally_re_throw", "do_not_throw_exit"),
         emit(emit_throw("error")),
         dealloc("error"),
         patch_jump("do_not_throw_exit"),
         dealloc("finally_re_throw")>>

\* the calls compile_try makes, in order
compile_try_steps(variant, generator, use) ==
    CASE variant = "Catch" -> compile_try_catch(use)
      [] variant = "CatchFinally" -> compile_try_catch_finally(use)
      [] variant = "Finally" /\ generator ->
            compile_try_finally_generator(use)
      [] OTHER -> compile_try_finally(use)

compile_try(variant, generator, use) ==
    apply_steps(EmptyByteCompiler, compile_try_steps(variant, generator, use))

(***************************************************************************)
(* Running the compiled statement.  A raised exception is looked up in the *)
(* handler table by the address of the raising instruction; it stays       *)
(* pending until an Exception instruction takes it.  The empty pending     *)
(* exception is a generator's return() travelling through the handlers.    *)
(***************************************************************************)
ThrownValues == {"e1", "e2"}
RegisterNames == {"finally_re_throw", "re_throw_generator", "error", "value"}
Uninit == "-"

Code == compile_try(try_variant, is_generator, use_expr).code
Handlers == compile_try(try_variant, is_generator, use_expr).handlers
Running == completion = "running" /\ pc \in 1..Len(Code)
Current == Code[pc]

\* what a block may raise: a value, or in a generator the empty exception
Raisable == {Some(e) : e \in ThrownValues} \cup
            (IF is_generator THEN {None} ELSE {})

find_handler(at) ==
    {i \in 1..Len(Handlers) : Handlers[i].start <= at /\ at < Handlers[i].end}

handle_throw(exc) ==
    /\ pending_exception' = exc
    /\ IF find_handler(pc) # {}
       THEN /\ pc' = Handlers[CHOOSE i \in find_handler(pc) :
                                  \A j \in find_handler(pc) : j <= i].end
            /\ completion' = completion
       ELSE /\ pc' = 0
            /\ completion' = IF exc = None THEN "return" ELSE "throw"

InitTry ==
    /\ try_variant \in TryVariants
    /\ is_generator \in BOOLEAN
    /\ use_expr \in BOOLEAN
    /\ pc = 1
    /\ registers = [r \in RegisterNames |-> Uninit]
    /\ accumulator = Undefined
    /\ pending_exception = None
    /\ completion = "running"
    /\ blocks_run = <<>>
    /\ block_outcomes = <<>>

tryFixed == <<try_variant, is_generator, use_expr>>

PushBoolean ==
    /\ Running /\ Current.op \in {"PushTrue", "PushFalse"}
    /\ registers' = [registers EXCEPT ![Current.reg] =
                        IF Current.op = "PushTrue" THEN "true" ELSE "false"]
    /\ pc' = pc + 1
    /\ UNCHANGED <<tryFixed, accumulator, pending_exception, completion,
                   blocks_run,
                   block_outcomes>>
    /\ UNCHANGED notTry

Jump ==
    /\ Running /\ Current.op = "Jump"
    /\ pc' = Current.target
    /\ UNCHANGED <<tryFixed, registers, accumulator, pending_exception,
                   completion, blocks_run,
                   block_outcomes>>
    /\ UNCHANGED notTry

JumpIfFalse ==
    /\ Running /\ Current.op = "JumpIfFalse"
    /\ pc' = IF registers[Current.reg] = "false" THEN Current.target
             ELSE pc + 1
    /\ UNCHANGED <<tryFixed, registers, accumulator, pending_exception,
                   completion, blocks_run,
                   block_outcomes>>
    /\ UNCHANGED notTry

JumpIfTrue ==
    /\ Running /\ Current.op = "JumpIfTrue"
    /\ pc' = IF registers[Current.reg] = "true" THEN Current.target
             ELSE pc + 1
    /\ UNCHANGED <<tryFixed, registers, accumulator, pending_exception,
                   completion, blocks_run,
                   block_outcomes>>
    /\ UNCHANGED notTry

SetRegisterFromAccumulator ==
    /\ Running /\ Current.op = "SetRegisterFromAccumulator"
    /\ registers' = [registers EXCEPT ![Current.reg] = accumulator]
    /\ pc' = pc + 1
    /\ UNCHANGED <<tryFixed, accumulator, pending_exception, completion,
                   blocks_run,
                   block_outcomes>>
    /\ UNCHANGED notTry

SetAccumulator ==
    /\ Running /\ Current.op = "SetAccumulator"
    /\ accumulator' = registers[Current.reg]
    /\ pc' = pc + 1
    /\ UNCHANGED <<tryFixed, registers, pending_exception, completion,
                   blocks_run,
                   block_outcomes>>
    /\ UNCHANGED notTry

\* Exception takes the pending exception into a register; with none
\* pending it re-raises the empty exception (lines 98-102).
Exception ==
    /\ Running /\ Current.op = "Exception"
    /\ IF pending_exception # None
       THEN /\ registers' = [registers EXCEPT ![Current.reg] =
                                Unwrap(pending_exception)]
            /\ pending_exception' = None
            /\ pc' = pc + 1
            /\ completion' = completion
       ELSE /\ handle_throw(None)
            /\ registers' = registers
    /\ UNCHANGED <<tryFixed, accumulator, blocks_run,
                   block_outcomes>>
    /\ UNCHANGED notTry

Throw ==
    /\ Running /\ Current.op = "Throw"
    /\ handle_throw(Some(registers[Current.reg]))
    /\ UNCHANGED <<tryFixed, registers, accumulator, blocks_run,
                   block_outcomes>>
    /\ UNCHANGED notTry

ReThrow ==
    /\ Running /\ Current.op = "ReThrow"
    /\ handle_throw(pending_exception)
    /\ UNCHANGED <<tryFixed, registers, accumulator, blocks_run,
                   block_outcomes>>
    /\ UNCHANGED notTry

BlockCompletes ==
    /\ Running /\ Current.op = "Block"
    /\ blocks_run' = Append(blocks_run, Current.block)
    /\ block_outcomes' = Append(block_outcomes, "normal")
    /\ accumulator' = IF Current.use THEN Current.block ELSE accumulator
    /\ pc' = pc + 1
    /\ UNCHANGED <<tryFixed, registers, pending_exception, completion>>
    /\ UNCHANGED notTry

\* the block completes normally after a try statement nested in it has
\* caught an exception raised inside: the nested throw replaced the pending
\* exception and the nested Exception instruction took it
BlockCatchesInside ==
    /\ Running /\ Current.op = "Block"
    /\ blocks_run' = Append(blocks_run, Current.block)
    /\ block_outcomes' = Append(block_outcomes, "handled")
    /\ accumulator' = IF Current.use THEN Current.block ELSE accumulator
    /\ pending_exception' = None
    /\ pc' = pc + 1
    /\ UNCHANGED <<tryFixed, registers, completion>>
    /\ UNCHANGED notTry

\* how a block that raises exc ended
Outcome(exc) == IF exc = None THEN "return" ELSE Unwrap(exc)

BlockThrows(exc) ==
    /\ Running /\ Current.op = "Block"
    /\ blocks_run' = Append(blocks_run, Current.block)
    /\ block_outcomes' = Append(block_outcomes, Outcome(exc))
    /\ handle_throw(exc)
    /\ UNCHANGED <<tryFixed, registers, accumulator>>
    /\ UNCHANGED notTry

\* control runs off the end of the statement's code
FallThrough ==
    /\ completion = "running" /\ pc = Len(Code) + 1
    /\ completion' = "normal"
    /\ pc' = 0
    /\ UNCHANGED <<tryFixed, registers, accumulator, pending_exception,
                   blocks_run,
                   block_outcomes>>
    /\ UNCHANGED notTry

NextTry ==
    \/ PushBoolean
    \/ Jump
    \/ JumpIfFalse
    \/ JumpIfTrue
    \/ SetRegisterFromAccumulator
    \/ SetAccumulator
    \/ Exception
    \/ Throw
    \/ ReThrow
    \/ BlockCompletes
    \/ BlockCatchesInside
    \/ \E exc \in Raisable : BlockThrows(exc)
    \/ FallThrough

InitTryStatement == InitTry /\ Idle("try")

SpecTry == InitTryStatement /\ [][NextTry]_vars

HasFinally == try_variant \in {"Finally", "CatchFinally"}
Left == completion \in {"normal", "throw", "return"}

\* C6: whenever control has left a try statement that has a finally block
\* (normally, by an exception, or by a generator's return), the finally
\* block has run, and it is the last of the statement's blocks to have run;
\* and a step that leaves the statement never does so without it.
C6_FinallyRunsOnEveryExit ==
    /\ [](HasFinally /\ Left =>
            /\ blocks_run # <<>>
            /\ blocks_run[Len(blocks_run)] = "finally")
    /\ [][HasFinally /\ ~Left /\ Left' =>
            \E i \in 1..Len(blocks_run') : blocks_run'[i] = "finally"]_vars

\* the exception thrown inside catch left the statement after finally ran
C6_Witness ==
    /\ try_variant = "CatchFinally"
    /\ blocks_run = <<"try", "catch", "finally">>
    /\ completion = "throw"
    /\ pending_exception = Some("e2")

\* the statement was left after its finally block completed normally
CompletedNormally(outcome) == outcome \in {"normal", "handled"}
LeftAfterFinally ==
    /\ HasFinally /\ Left
    /\ Len(blocks_run) >= 2
    /\ blocks_run[Len(blocks_run)] = "finally"
    /\ CompletedNormally(block_outcomes[Len(blocks_run)])
\* how the block that ran before the finally block ended: the try block, or
\* the catch block if the try block threw and there is a catch clause
BeforeFinally == block_outcomes[Len(blocks_run) - 1]
ReThrown(exc) == completion = "throw" /\ pending_exception = Some(exc)

\* C23: when a try statement with a finally block is left because of an
\* exception that no catch clause handled, or that was thrown inside the
\* catch block, and the finally block completes normally, the same
\* exception is re-thrown after the finally block; when try or catch
\* completed normally, nothing is thrown after the finally block.
C23_SameExceptionReThrownAfterFinally ==
    LeftAfterFinally =>
        /\ BeforeFinally \in ThrownValues => ReThrown(BeforeFinally)
        /\ CompletedNormally(BeforeFinally) => completion = "normal"

\* C23, as far as it holds: the same, except that after an exception
\* thrown inside the catch block the exception is re-thrown only if the
\* finally block caught no exception of its own; if it did, the statement
\* is left as by a return, with no exception.
C23_ReThrownUnlessFinallyCaughtInside ==
    LeftAfterFinally =>
        /\ BeforeFinally \in ThrownValues =>
              IF /\ try_variant = "CatchFinally"
                 /\ block_outcomes[Len(blocks_run)] = "handled"
              THEN completion = "return" /\ pending_exception = None
              ELSE ReThrown(BeforeFinally)
        /\ CompletedNormally(BeforeFinally) => completion = "normal"

\* the try block threw e1, the catch block threw e2, the finally block
\* completed normally without raising anything, and e2 was re-thrown
C23_Witness ==
    /\ try_variant = "CatchFinally"
    /\ blocks_run = <<"try", "catch", "finally">>
    /\ block_outcomes = <<"e1", "e2", "normal">>
    /\ ReThrown("e2")

(***************************************************************************)
(* Promises.  JsPromise::new and JsPromise::new_pending create a pending   *)
(* promise and one pair of resolving functions for it; the pair shares an  *)
(* already_resolved flag.  Resolving with a thenable queues a job that     *)
(* creates a further pair for the same promise and hands it to the         *)
(* thenable's then.  into_js_future registers a reaction whose job stores  *)
(* the settled value in the future's shared state.                         *)
(***************************************************************************)
MaxPairs == 2
MaxCalls == 3
Pairs == 1..MaxPairs
Thenable == "thenable"
SelfResolution == "the promise itself"
ResolutionValues == {"v1", "v2", Thenable, SelfResolution}
Reasons == {"r1"}

World == [promise |-> promise, already_resolved |-> already_resolved,
          jobs |-> jobs]

Job(kind, settled, value) ==
    [kind |-> kind, settled |-> settled, value |-> value]

trigger_promise_reactions(w, settled, value) ==
    IF w.promise.reactions
    THEN Append(w.jobs, Job("reaction", settled, value))
    ELSE w.jobs

fulfill_promise(w, value) ==
    [w EXCEPT !.promise = [state |-> "Fulfilled", value |-> value,
                           reactions |-> FALSE],
              !.jobs = trigger_promise_reactions(w, "Fulfilled", value)]

reject_promise(w, reason) ==
    [w EXCEPT !.promise = [state |-> "Rejected", value |-> reason,
                           reactions |-> FALSE],
              !.jobs = trigger_promise_reactions(w, "Rejected", reason)]

\* the resolve function of pair p
resolve_function(w, p, resolution) ==
    IF w.already_resolved[p] THEN w
    ELSE LET w1 == [w EXCEPT !.already_resolved[p] = TRUE] IN
         CASE resolution = SelfResolution -> reject_promise(w1, "TypeError")
           [] resolution = Thenable ->
                [w1 EXCEPT !.jobs = Append(@, Job("thenable", "-", "-"))]
           [] OTHER -> fulfill_promise(w1, resolution)

\* the reject function of pair p
reject_function(w, p, reason) ==
    IF w.already_resolved[p] THEN w
    ELSE reject_promise([w EXCEPT !.already_resolved[p] = TRUE], reason)

\* an executor error settling the promise without the reject function
executor_error_rejects_directly(w, e) == reject_promise(w, e)

\* JsPromise::new: if let Err(e) = executor(..) { resolvers.reject.call(e) }
executor_error(w, e) == reject_function(w, 1, e)

NoPromiseCall == [fn |-> "-", pair |-> 0, arg |-> "-", was_resolved |-> FALSE,
                  n |-> 0]

Commit(w) ==
    /\ promise' = w.promise
    /\ already_resolved' = w.already_resolved
    /\ jobs' = w.jobs

Called(fn, p, arg) ==
    pcall' = [fn |-> fn, pair |-> p, arg |-> arg,
              was_resolved |-> already_resolved[p], n |-> pcall.n + 1]

InitPromise ==
    /\ promise = [state |-> "Pending", value |-> Undefined, reactions |-> FALSE]
    /\ already_resolved = [p \in Pairs |-> FALSE]
    /\ pairs = 1
    /\ \E r \in {"running", "none"} :
            running = [p \in Pairs |-> IF p = 1 THEN r ELSE "none"]
    /\ jobs = <<>>
    /\ future = [created |-> FALSE, result |-> None]
    /\ assert_failed = FALSE
    /\ pcall = NoPromiseCall

CallResolve(p, resolution) ==
    /\ p <= pairs /\ pcall.n < MaxCalls
    /\ resolution = Thenable => pairs < MaxPairs
    /\ Commit(resolve_function(World, p, resolution))
    /\ Called("resolve", p, resolution)
    /\ UNCHANGED <<pairs, running, future, assert_failed>>
    /\ UNCHANGED notPromise

CallReject(p, reason) ==
    /\ p <= pairs /\ pcall.n < MaxCalls
    /\ Commit(reject_function(World, p, reason))
    /\ Called("reject", p, reason)
    /\ UNCHANGED <<pairs, running, future, assert_failed>>
    /\ UNCHANGED notPromise

\* the executor of JsPromise::new returns Ok
ExecutorReturns ==
    /\ running[1] = "running"
    /\ running' = [running EXCEPT ![1] = "returned"]
    /\ UNCHANGED <<promise, already_resolved, pairs, jobs, future,
                   assert_failed, pcall>>
    /\ UNCHANGED notPromise

\* the executor of JsPromise::new returns Err(e)
ExecutorFails(e) ==
    /\ running[1] = "running"
    /\ running' = [running EXCEPT ![1] = "returned"]
    /\ Commit(executor_error(World, e))
    /\ Called("reject", 1, e)
    /\ UNCHANGED <<pairs, future, assert_failed>>
    /\ UNCHANGED notPromise

\* the job queued by resolving with a thenable: a new pair for the same
\* promise is created and passed to thenable.then
RunThenableJob ==
    /\ jobs # <<>> /\ Head(jobs).kind = "thenable"
    /\ jobs' = Tail(jobs)
    /\ pairs' = pairs + 1
    /\ running' = [running EXCEPT ![pairs + 1] = "running"]
    /\ UNCHANGED <<promise, already_resolved, future, assert_failed, pcall>>
    /\ UNCHANGED notPromise

\* thenable.then returns, or throws e and the job calls the pair's reject
ThenReturns(p, thrown) ==
    /\ p > 1 /\ running[p] = "running"
    /\ running' = [running EXCEPT ![p] = "returned"]
    /\ IF thrown = None
       THEN UNCHANGED <<promise, already_resolved, jobs, pcall>>
       ELSE /\ Commit(reject_function(World, p, Unwrap(thrown)))
            /\ Called("reject", p, Unwrap(thrown))
    /\ UNCHANGED <<pairs, future, assert_failed>>
    /\ UNCHANGED notPromise

\* into_js_future: self.then(resolve, reject) with the closures over state
IntoJsFuture ==
    /\ ~future.created
    /\ future' = [future EXCEPT !.created = TRUE]
    /\ IF promise.state = "Pending"
       THEN /\ promise' = [promise EXCEPT !.reactions = TRUE]
            /\ jobs' = jobs
       ELSE /\ jobs' = Append(jobs, Job("reaction", promise.state,
                                        promise.value))
            /\ promise' = promise
    /\ UNCHANGED <<already_resolved, pairs, running, assert_failed, pcall>>
    /\ UNCHANGED notPromise

\* the reaction job calls the future's resolve or reject closure: finish
RunReactionJob ==
    /\ jobs # <<>> /\ Head(jobs).kind = "reaction"
    /\ jobs' = Tail(jobs)
    /\ assert_failed' = (assert_failed \/ future.result # None)
    /\ future' = [future EXCEPT !.result = Some(Head(jobs).value)]
    /\ UNCHANGED <<promise, already_resolved, pairs, running, pcall>>
    /\ UNCHANGED notPromise

NextPromise ==
    \/ \E p \in Pairs, v \in ResolutionValues : CallResolve(p, v)
    \/ \E p \in Pairs, r \in Reasons : CallReject(p, r)
    \/ ExecutorReturns
    \/ \E e \in Reasons : ExecutorFails(e)
    \/ RunThenableJob
    \/ \E p \in Pairs, t \in {None} \cup {Some(e) : e \in Reasons} :
            ThenReturns(p, t)
    \/ IntoJsFuture
    \/ RunReactionJob

InitPromiseAlone == InitPromise /\ Idle("promise")

SpecPromise == InitPromiseAlone /\ [][NextPromise]_vars

PromiseCall == pcall'.n = pcall.n + 1
Settled(pr) == <<pr.state, pr.value>>

\* C7: a call to the resolve or the reject function of a pair whose flag an
\* earlier call to either of them has set leaves the promise's state and
\* value unchanged; a call changes them only if it is the first call to its
\* pair, and only while the promise is pending; the future's shared state
\* is written at most once.
C7_OnlyFirstCallSettles ==
    /\ [][PromiseCall /\ pcall'.was_resolved
            => Settled(promise') = Settled(promise)]_vars
    /\ [][Settled(promise') # Settled(promise)
            => /\ promise.state = "Pending"
               /\ PromiseCall /\ ~pcall'.was_resolved]_vars
    /\ []~assert_failed

\* a later reject on the pair made by the constructor left alone the promise
\* that its resolve had fulfilled
C7_Witness ==
    /\ pcall.fn = "reject" /\ pcall.pair = 1 /\ pcall.was_resolved
    /\ pcall.n = 2
    /\ promise.state = "Fulfilled" /\ promise.value = "v1"

(***************************************************************************)
(* WeakRef.  The constructor and deref push the target on                  *)
(* context.kept_alive; a collection frees only objects that neither the    *)
(* program nor kept_alive holds; clear_kept_objects ends the turn.         *)
(***************************************************************************)
MaxKept == 3
Targets == {"o1", "o2"}
WeakRefs == {"w1", "w2"}

Range(seq) == {seq[i] : i \in 1..Len(seq)}

\* an upgrade that still finds a collected target
upgrade_after_collection(ref) == weak_refs[ref]

\* WeakGc::upgrade
upgrade(ref) == IF weak_refs[ref] \subseteq alive THEN weak_refs[ref] ELSE None

\* the constructor without AddToKeptObjects
constructor_keeps_nothing(kept, target) == kept

\* constructor, step 4: context.kept_alive.push(target.clone())
constructor_kept_alive(kept, target) == Append(kept, target)

InitWeak ==
    /\ alive = Targets
    /\ roots = Targets
    /\ kept_alive = <<>>
    /\ weak_refs = [w \in WeakRefs |-> None]
    /\ pinned = {}
    /\ survived = {}
    /\ deref_ret = [ref |-> "-", result |-> None, was_pinned |-> FALSE,
                    passed_over |-> FALSE, n |-> 0]

\* new WeakRef(target)
Constructor(ref, target) ==
    /\ weak_refs[ref] = None
    /\ target \in roots
    /\ Len(kept_alive) < MaxKept
    /\ weak_refs' = [weak_refs EXCEPT ![ref] = Some(target)]
    /\ kept_alive' = constructor_kept_alive(kept_alive, target)
    /\ pinned' = pinned \cup {ref}
    /\ UNCHANGED <<alive, roots, survived, deref_ret>>
    /\ UNCHANGED notWeak

\* ref.deref()
Deref(ref) ==
    /\ weak_refs[ref] # None
    /\ Len(kept_alive) < MaxKept
    /\ IF upgrade(ref) # None
       THEN /\ kept_alive' = Append(kept_alive, Unwrap(upgrade(ref)))
            /\ pinned' = pinned \cup {ref}
       ELSE UNCHANGED <<kept_alive, pinned>>
    /\ deref_ret' = [ref |-> ref, result |-> upgrade(ref),
                      was_pinned |-> ref \in pinned,
                      passed_over |-> weak_refs[ref] \subseteq survived \ roots,
                      n |-> 1 - deref_ret.n]
    /\ UNCHANGED <<alive, roots, weak_refs, survived>>
    /\ UNCHANGED notWeak

\* the program drops its last strong reference to an object
DropReference(o) ==
    /\ o \in roots
    /\ roots' = roots \ {o}
    /\ UNCHANGED <<alive, kept_alive, weak_refs, pinned, survived, deref_ret>>
    /\ UNCHANGED notWeak

Unreachable == alive \ (roots \cup Range(kept_alive))

\* a collection frees some of the unreachable objects, force_collect all
Collect(freed) ==
    /\ freed \subseteq Unreachable
    /\ alive' = alive \ freed
    /\ survived' = survived \cup ((alive \ freed) \ roots)
    /\ alive' # alive \/ survived' # survived
    /\ UNCHANGED <<roots, kept_alive, weak_refs, pinned, deref_ret>>
    /\ UNCHANGED notWeak

\* context.clear_kept_objects(): the turn ends
ClearKeptObjects ==
    /\ kept_alive # <<>> \/ pinned # {} \/ survived # {}
    /\ kept_alive' = <<>>
    /\ pinned' = {}
    /\ survived' = {}
    /\ UNCHANGED <<alive, roots, weak_refs, deref_ret>>
    /\ UNCHANGED notWeak

NextWeak ==
    \/ \E ref \in WeakRefs, target \in Targets : Constructor(ref, target)
    \/ \E ref \in WeakRefs : Deref(ref)
    \/ \E o \in Targets : DropReference(o)
    \/ \E freed \in SUBSET Targets : Collect(freed)
    \/ ClearKeptObjects

InitWeakAlone == InitWeak /\ Idle("weak")

SpecWeakRef == InitWeakAlone /\ [][NextWeak]_vars

DerefOf(ref) == deref_ret'.n # deref_ret.n /\ deref_ret'.ref = ref

\* C8: from the construction of a WeakRef, or from a deref of it that
\* returned its target, to the end of the turn, the target is not collected
\* and every deref of that WeakRef returns the target, never undefined,
\* whatever collections run and whatever references the program drops.
C8_DerefStableWithinTurn ==
    /\ [](\A ref \in pinned : weak_refs[ref] # None /\ weak_refs[ref] \subseteq alive)
    /\ [][\A ref \in pinned :
            DerefOf(ref) => /\ deref_ret'.result = weak_refs[ref]
                            /\ deref_ret'.result # None]_vars

\* a deref returned an object that only kept_alive holds and that a
\* collection of this turn had to pass over
C8_Witness ==
    /\ deref_ret.was_pinned /\ deref_ret.passed_over
    /\ deref_ret.result # None
    /\ deref_ret.result \cap roots = {}
    /\ alive # Targets

(***************************************************************************)
(* JsBigInt::pow.  The f64 product bits(x) * y is exact for the operands   *)
(* drawn here (below 2^53), so floor leaves it as it is; the operands are  *)
(* bounded so that the product stays below 2^31.                           *)
(***************************************************************************)
MaxBase == 8
MaxProduct == 2000000000
MaxSmallExponent == 3
MaximumBigIntSize == 1000000000

Abs(n) == IF n < 0 THEN -n ELSE n

\* BigInt::bits: the number of bits of the magnitude, 0 for zero
RECURSIVE bits(_)
bits(n) == IF Abs(n) = 0 THEN 0 ELSE 1 + bits(Abs(n) \div 2)

RECURSIVE Power(_, _)
Power(x, y) == IF y = 0 THEN 1 ELSE x * Power(x, y - 1)

\* a size check one bit more lenient
size_exceeded_above_limit_plus_one(num_bits) == num_bits > MaximumBigIntSize + 1

\* if num_bits > 1_000_000_000f64
size_exceeded(num_bits) == num_bits > MaximumBigIntSize

\* the value is carried only for small exponents
pow(x, y) ==
    IF y < 0
    THEN [kind |-> "RangeError", message |-> "BigInt negative exponent",
          value |-> None]
    ELSE LET num_bits == bits(x) * y + 1 IN
         IF size_exceeded(num_bits)
         THEN [kind |-> "RangeError",
               message |-> "Maximum BigInt size exceeded", value |-> None]
         ELSE [kind |-> "Ok", message |-> "-",
               value |-> IF y <= MaxSmallExponent THEN Some(Power(x, y))
                         ELSE None]

Bases == -MaxBase..MaxBase
\* exponents around every quotient of the limit, and small ones
Exponents ==
    (-1..MaxSmallExponent)
    \cup {MaximumBigIntSize \div b + d : b \in 1..bits(MaxBase), d \in -1..1}
    \cup {2 * MaximumBigIntSize}

InitPow ==
    /\ pow_x \in Bases
    /\ pow_y \in {y \in Exponents : bits(pow_x) = 0
                                    \/ y <= MaxProduct \div bits(pow_x)}
    /\ pow_result = None

Pow ==
    /\ pow_result = None
    /\ pow_result' = Some(pow(pow_x, pow_y))
    /\ UNCHANGED <<pow_x, pow_y>>
    /\ UNCHANGED notPow

NextPow == Pow

InitPowAlone == InitPow /\ Idle("pow")

SpecBigInt == InitPowAlone /\ [][NextPow]_vars

PowKind == Unwrap(pow_result).kind

\* C9 as stated: x ** y with y >= 0 succeeds whenever bits(x) * y <= 1e9
\* and throws a RangeError whenever bits(x) * y > 1e9.
C9_PowBound_AsStated ==
    (pow_result # None /\ pow_y >= 0) =>
        /\ bits(pow_x) * pow_y <= MaximumBigIntSize => PowKind = "Ok"
        /\ bits(pow_x) * pow_y > MaximumBigIntSize => PowKind = "RangeError"

\* C9 (amended): x ** y with y >= 0 succeeds whenever bits(x) * y < 1e9,
\* with value x^y, and throws a RangeError whenever bits(x) * y >= 1e9; a
\* negative y throws a RangeError.
C9_PowBound ==
    pow_result # None =>
        /\ (pow_y >= 0 /\ bits(pow_x) * pow_y < MaximumBigIntSize) =>
                /\ PowKind = "Ok"
                /\ pow_y <= MaxSmallExponent =>
                        Unwrap(pow_result).value = Some(Power(pow_x, pow_y))
        /\ (pow_y >= 0 /\ bits(pow_x) * pow_y >= MaximumBigIntSize) =>
                PowKind = "RangeError"
        /\ pow_y < 0 => PowKind = "RangeError"

\* the call at the boundary bits(x) * y = 1e9 threw
C9_Witness ==
    /\ pow_result # None
    /\ pow_y > 0
    /\ bits(pow_x) * pow_y = MaximumBigIntSize
    /\ PowKind = "RangeError"

(***************************************************************************)
(* RegExpBuiltinExec.  "lastIndex" is an own data property that can be     *)
(* assigned any value and made non-writable, never an accessor.  The       *)
(* matcher is any matcher: from position i over an input of the given      *)
(* length it fails or returns a match with i <= start <= end <= length.    *)
(***************************************************************************)
MaxLength == 2

Integer(n) == [kind |-> "int", n |-> n]
\* a number with a fractional part: n + 1/2
Frac(n) == [kind |-> "frac", n |-> n]
SymbolValue == [kind |-> "symbol", n |-> 0]
LastIndexValues ==
    {Integer(i) : i \in -1..MaxLength + 2} \cup {Frac(-1), Frac(1)}
        \cup {SymbolValue}

\* ToLength: None when the conversion throws a TypeError
to_length(v) ==
    CASE v.kind = "symbol" -> None
      [] v.n < 0 -> Some(0)
      [] OTHER -> Some(v.n)

\* Set(R, "lastIndex", v, true)
set_last_index(prop, v) ==
    IF prop.writable
    THEN [ok |-> TRUE, prop |-> [prop EXCEPT !.value = Integer(v)]]
    ELSE [ok |-> FALSE, prop |-> prop]

NoMatch == None
Matches(length, from) ==
    {Some([start |-> m[1], end |-> m[2]]) :
        m \in {p \in (from..length) \X (from..length) : p[1] <= p[2]}}

\* a past-the-end lastIndex that is never reset
past_end_never_reset(global, sticky) == FALSE

\* 13.a.i: if global || sticky
past_end_reset(global, sticky) == global \/ sticky

ExecOutcome(result, set) ==
    [result |-> IF set.ok THEN result ELSE "TypeError", prop |-> set.prop]

abstract_builtin_exec(flags, prop, length, r) ==
    LET global == flags.global
        sticky == flags.sticky
        untouched == [ok |-> TRUE, prop |-> prop]
    IN
    IF to_length(prop.value) = None THEN ExecOutcome("TypeError", untouched)
    ELSE
    LET from == IF ~global /\ ~sticky THEN 0
                ELSE Unwrap(to_length(prop.value))
    IN
    CASE from > length ->
            IF past_end_reset(global, sticky)
            THEN ExecOutcome("null", set_last_index(prop, 0))
            ELSE ExecOutcome("null", untouched)
      [] r = NoMatch ->
            IF global \/ sticky
            THEN ExecOutcome("null", set_last_index(prop, 0))
            ELSE ExecOutcome("null", untouched)
      [] sticky /\ Unwrap(r).start # from ->
            ExecOutcome("null", set_last_index(prop, 0))
      [] OTHER ->
            IF global \/ sticky
            THEN ExecOutcome("match", set_last_index(prop, Unwrap(r).end))
            ELSE ExecOutcome("match", untouched)

\* the matcher results possible for this call; none is asked for when the
\* call returns before the matcher runs
MatcherResults(flags, prop, length) ==
    LET from == IF to_length(prop.value) = None THEN length + 1
                ELSE IF ~flags.global /\ ~flags.sticky THEN 0
                ELSE Unwrap(to_length(prop.value))
    IN  {NoMatch} \cup (IF from > length THEN {} ELSE Matches(length, from))

InitRegExp ==
    /\ original_flags \in [global : BOOLEAN, sticky : BOOLEAN]
    /\ last_index = [value |-> Integer(0), writable |-> TRUE]
    /\ exec_ret = [result |-> "-", length |-> 0, before |-> Integer(0), n |-> 0]

\* R.exec(S) with S of the given length
Exec(length, r) ==
    /\ r \in MatcherResults(original_flags, last_index, length)
    /\ LET out == abstract_builtin_exec(original_flags, last_index, length, r)
       IN  /\ last_index' = out.prop
           /\ exec_ret' = [result |-> out.result, length |-> length,
                           before |-> last_index.value, n |-> 1 - exec_ret.n]
    /\ UNCHANGED original_flags
    /\ UNCHANGED notRegExp

\* R.lastIndex = v
AssignLastIndex(v) ==
    /\ last_index.writable
    /\ last_index' = [last_index EXCEPT !.value = v]
    /\ UNCHANGED <<original_flags, exec_ret>>
    /\ UNCHANGED notRegExp

\* Object.defineProperty(R, "lastIndex", {value: v, writable: false})
FreezeLastIndex(v) ==
    /\ last_index.writable
    /\ last_index' = [value |-> v, writable |-> FALSE]
    /\ UNCHANGED <<original_flags, exec_ret>>
    /\ UNCHANGED notRegExp

NextRegExp ==
    \/ \E length \in 0..MaxLength :
       \E r \in {NoMatch} \cup Matches(length, 0) : Exec(length, r)
    \/ \E v \in LastIndexValues : AssignLastIndex(v)
    \/ \E v \in LastIndexValues : FreezeLastIndex(v)

InitRegExpAlone == InitRegExp /\ Idle("regexp")

SpecRegExp == InitRegExpAlone /\ [][NextRegExp]_vars

ExecStep == exec_ret'.n # exec_ret.n
GlobalOrSticky == original_flags.global \/ original_flags.sticky
InRange(v, length) == v.kind = "int" /\ 0 <= v.n /\ v.n <= length

\* C10 as stated: after every exec on a RegExp that has the global or sticky
\* flag, lastIndex is an integer between 0 and the length of the input,
\* whatever value lastIndex held before the call.
C10_LastIndexInRange_AfterEveryExec ==
    [][ExecStep /\ GlobalOrSticky
        => InRange(last_index'.value, exec_ret'.length)]_vars

\* C10 (amended): after every exec that returns without throwing on a RegExp
\* that has the global or sticky flag, lastIndex is an integer between 0
\* and the length of the input, whatever value it held before the call; an
\* exec that throws leaves lastIndex as it was.
C10_LastIndexInRange ==
    /\ [][ExecStep /\ GlobalOrSticky /\ exec_ret'.result # "TypeError"
            => InRange(last_index'.value, exec_ret'.length)]_vars
    /\ [][ExecStep /\ exec_ret'.result = "TypeError"
            => last_index' = last_index]_vars

\* an exec on a global or sticky RegExp found lastIndex past the end of the
\* input and left it at 0
C10_Witness ==
    /\ GlobalOrSticky
    /\ exec_ret.result = "null"
    /\ exec_ret.before.kind = "int" /\ exec_ret.before.n > exec_ret.length
    /\ last_index.value = Integer(0)

(***************************************************************************)
(* Equality of values: JsValue::strict_equals (===) and JsValue::equals    *)
(* (==).  A number is stored either as an Integer32 or as a Float64; a     *)
(* Float64 is NaN, an infinity, or a finite value with a sign, so that -0  *)
(* and +0 are different values.  Finite values are kept as twice their     *)
(* magnitude, which makes the halves representable.                        *)
(***************************************************************************)
MaxInt == 1

Float64(class, neg, twice) ==
    [variant |-> "Float64", class |-> class, neg |-> neg, n |-> twice,
     s |-> ""]
Integer32(i) ==
    [variant |-> "Integer32", class |-> "fin", neg |-> FALSE, n |-> i,
     s |-> ""]
JsBigInt(i) ==
    [variant |-> "BigInt", class |-> "fin", neg |-> FALSE, n |-> i, s |-> ""]
Boolean(b) ==
    [variant |-> "Boolean", class |-> "fin", neg |-> FALSE,
     n |-> IF b THEN 1 ELSE 0, s |-> ""]
JsString(str) ==
    [variant |-> "String", class |-> "fin", neg |-> FALSE, n |-> 0,
     s |-> str]
JsNull == [variant |-> "Null", class |-> "fin", neg |-> FALSE, n |-> 0,
           s |-> ""]
JsUndefined == [variant |-> "Undefined", class |-> "fin", neg |-> FALSE,
                n |-> 0, s |-> ""]

NaN == Float64("nan", FALSE, 0)
PositiveZero == Float64("fin", FALSE, 0)
NegativeZero == Float64("fin", TRUE, 0)

Strings == {"", "1", "-0", "abc"}

Float64Values ==
    {NaN} \cup {Float64("inf", neg, 0) : neg \in BOOLEAN}
          \cup {Float64("fin", neg, t) : neg \in BOOLEAN, t \in 0..(2 * MaxInt)}
NumberValues == {Integer32(i) : i \in (-MaxInt)..MaxInt} \cup Float64Values
JsValues ==
    NumberValues \cup {JsBigInt(i) : i \in (-MaxInt)..MaxInt}
                 \cup {Boolean(b) : b \in BOOLEAN}
                 \cup {JsString(str) : str \in Strings}
                 \cup {JsNull, JsUndefined}

\* JsValue::get_type with the two number variants told apart
get_type_by_variant(v) == v.variant

\* JsValue::get_type: both number variants are of type Number
get_type(v) ==
    IF v.variant \in {"Float64", "Integer32"} THEN "Number" ELSE v.variant

\* f64::from(i32)
f64_from(i) == Float64("fin", i < 0, 2 * Abs(i))

\* Number::equal, the == of two f64: NaN equals nothing, the zeros are equal
number_equal(a, b) ==
    IF a.class = "nan" \/ b.class = "nan" THEN FALSE
    ELSE IF a.class = "fin" /\ b.class = "fin" /\ a.n = 0 /\ b.n = 0 THEN TRUE
    ELSE a = b

\* StringToNumber on the strings of the model
string_to_number(str) ==
    CASE str = ""    -> PositiveZero
      [] str = "1"   -> Float64("fin", FALSE, 2)
      [] str = "-0"  -> NegativeZero
      [] OTHER       -> NaN

\* JsValue::to_number of a primitive that is a number, a string or a boolean
to_number(v) ==
    CASE v.variant = "Integer32" -> f64_from(v.n)
      [] v.variant = "Float64"   -> v
      [] v.variant = "Boolean"   -> f64_from(v.n)
      [] v.variant = "String"    -> string_to_number(v.s)

\* JsBigInt::from_js_string: Option<BigInt>
from_js_string(str) ==
    CASE str = ""    -> Some(0)
      [] str = "1"   -> Some(1)
      [] str = "-0"  -> Some(0)
      [] OTHER       -> None

\* a BigInt compared with an f64 or an i32: equal mathematical values
bigint_equals_number(b, num) ==
    LET f == to_number(num)
    IN  /\ f.class = "fin"
        /\ f.n = 2 * Abs(b.n)
        /\ (f.n = 0 \/ f.neg = (b.n < 0))

same_value_non_numeric(x, y) ==
    CASE x.variant \in {"Null", "Undefined"} -> TRUE
      [] x.variant = "String"  -> x.s = y.s
      [] x.variant = "Boolean" -> x.n = y.n

strict_equals(x, y) ==
    IF get_type(x) # get_type(y) THEN FALSE
    ELSE CASE x.variant = "BigInt" /\ y.variant = "BigInt" -> x.n = y.n
           [] x.variant = "Float64" /\ y.variant = "Float64" ->
                number_equal(x, y)
           [] x.variant = "Float64" /\ y.variant = "Integer32" ->
                number_equal(x, f64_from(y.n))
           [] x.variant = "Integer32" /\ y.variant = "Float64" ->
                number_equal(f64_from(x.n), y)
           [] x.variant = "Integer32" /\ y.variant = "Integer32" ->
                x.n = y.n
           [] x.variant = "Null" /\ y.variant = "Null" -> TRUE
           [] OTHER -> same_value_non_numeric(x, y)

IsNumberVariant(v) == v.variant \in {"Integer32", "Float64"}

RECURSIVE equals(_, _)
equals(x, y) ==
    IF get_type(x) = get_type(y) THEN strict_equals(x, y)
    ELSE CASE {x.variant, y.variant} = {"Null", "Undefined"} -> TRUE
           [] \/ IsNumberVariant(x) /\ y.variant \in {"String", "Boolean"}
              \/ x.variant = "String" /\ IsNumberVariant(y) ->
                number_equal(to_number(x), to_number(y))
           [] x.variant = "BigInt" /\ y.variant = "String" ->
                from_js_string(y.s) = Some(x.n)
           [] x.variant = "String" /\ y.variant = "BigInt" ->
                from_js_string(x.s) = Some(y.n)
           [] x.variant = "Boolean" -> equals(y, Integer32(x.n))
           [] y.variant = "Boolean" -> equals(x, Integer32(y.n))
           [] x.variant = "BigInt" /\ IsNumberVariant(y) ->
                bigint_equals_number(x, y)
           [] IsNumberVariant(x) /\ y.variant = "BigInt" ->
                bigint_equals_number(y, x)
           [] OTHER -> FALSE

InitEquality ==
    /\ eq_x \in JsValues
    /\ eq_y \in JsValues
    /\ eq_strict = None
    /\ eq_loose = None

\* x === y
StrictEquals ==
    /\ eq_strict = None
    /\ eq_strict' = Some(strict_equals(eq_x, eq_y))
    /\ UNCHANGED <<eq_x, eq_y, eq_loose>>
    /\ UNCHANGED notEquality

\* x == y
Equals ==
    /\ eq_loose = None
    /\ eq_loose' = Some(equals(eq_x, eq_y))
    /\ UNCHANGED <<eq_x, eq_y, eq_strict>>
    /\ UNCHANGED notEquality

NextEquality == StrictEquals \/ Equals

InitEqualityAlone == InitEquality /\ Idle("eq")

SpecEquality == InitEqualityAlone /\ [][NextEquality]_vars

IsZero(v) == v \in {PositiveZero, NegativeZero, Integer32(0)}

\* the number values that denote the same mathematical value as v: v
\* itself, and the value stored the other way when there is one
Encodings(v) ==
    {v} \cup {w \in NumberValues :
                /\ IsNumberVariant(v)
                /\ w.variant # v.variant
                /\ to_number(w) = to_number(v)}

EqResults == eq_strict \cup eq_loose

\* C11: on numbers, === and == treat -0 and +0 as equal, treat NaN as
\* unequal to every value including itself, and give the same result
\* whether an operand is stored as an int32 or as the float64 of the same
\* mathematical value.
C11_NumberEquality ==
    /\ (IsZero(eq_x) /\ IsZero(eq_y)) => (EqResults \subseteq {TRUE})
    /\ (eq_x = NaN \/ eq_y = NaN) => (EqResults \subseteq {FALSE})
    /\ \A x \in Encodings(eq_x), y \in Encodings(eq_y) :
          /\ eq_strict \subseteq {strict_equals(x, y)}
          /\ eq_loose \subseteq {equals(x, y)}

\* both comparisons of Integer32(1) with the Float64 1.0 have been made
C11_Witness ==
    /\ eq_x = Integer32(1)
    /\ eq_y = Float64("fin", FALSE, 2)
    /\ eq_strict = {TRUE}
    /\ eq_loose = {TRUE}

(***************************************************************************)
(* [[OwnPropertyKeys]] of ordinary objects.  The property map of an object *)
(* keeps the array-index keys apart from the others: the index keys are    *)
(* iterated in the order of their storage, which the order of insertion    *)
(* does not determine, and the shape keeps the string and symbol keys in   *)
(* the order of their creation.                                            *)
(***************************************************************************)
MaxIndex == 1
MaxInsertions == 2

KeyedObjects == {"a", "b"}
IndexKey(i) == [kind |-> "index", n |-> i, s |-> ""]
StringKey(str) == [kind |-> "string", n |-> 0, s |-> str]
SymbolKey(str) == [kind |-> "symbol", n |-> 0, s |-> str]
PropertyKeys ==
    {IndexKey(i) : i \in 0..MaxIndex}
        \cup {StringKey("p"), StringKey("q"), SymbolKey("@@s")}

\* the keys of seq of one kind, in their order
RECURSIVE Filter(_, _)
Filter(seq, kind) ==
    IF seq = <<>> THEN <<>>
    ELSE (IF Head(seq).kind = kind THEN <<Head(seq)>> ELSE <<>>)
            \o Filter(Tail(seq), kind)

\* seq with elem put in front of position pos
InsertAt(seq, pos, elem) ==
    SubSeq(seq, 1, pos - 1) \o <<elem>> \o SubSeq(seq, pos, Len(seq))

\* the index keys left in their storage order
storage_order(indexes) == indexes

\* indexes.sort_unstable(): ascending numeric order
RECURSIVE sort_unstable(_)
sort_unstable(indexes) ==
    IF indexes = <<>> THEN <<>>
    ELSE LET least == CHOOSE i \in 1..Len(indexes) :
                        \A j \in 1..Len(indexes) : indexes[i] <= indexes[j]
         IN  <<indexes[least]>>
                \o sort_unstable(SubSeq(indexes, 1, least - 1)
                                   \o SubSeq(indexes, least + 1, Len(indexes)))

\* shape.keys(): the string keys, then the symbol keys, each in ascending
\* chronological order of property creation
shape_keys_of(created) == Filter(created, "string") \o Filter(created, "symbol")

\* the keys of the shape put in front of the index keys
shape_keys_before_indexes(indexes, created) ==
    LET ordered_indexes == sort_unstable(indexes)
    IN  shape_keys_of(created)
            \o [i \in 1..Len(ordered_indexes) |-> IndexKey(ordered_indexes[i])]

ordinary_own_property_keys(indexes, created) ==
    LET ordered_indexes == sort_unstable(indexes)
    IN  [i \in 1..Len(ordered_indexes) |-> IndexKey(ordered_indexes[i])]
            \o shape_keys_of(created)

InitKeys ==
    /\ index_properties = [o \in KeyedObjects |-> <<>>]
    /\ shape_keys = [o \in KeyedObjects |-> <<>>]
    /\ history = [o \in KeyedObjects |-> <<>>]
    /\ own_keys = [o \in KeyedObjects |-> None]

\* a property with an array-index key is inserted: a new key is stored at
\* a place the storage chooses
InsertIndex(o, i) ==
    /\ Len(history[o]) < MaxInsertions
    /\ history' = [history EXCEPT ![o] = Append(@, IndexKey(i))]
    /\ IF i \in Range(index_properties[o])
       THEN UNCHANGED index_properties
       ELSE \E pos \in 1..(Len(index_properties[o]) + 1) :
              index_properties' =
                [index_properties EXCEPT ![o] = InsertAt(@, pos, i)]
    /\ own_keys' = [own_keys EXCEPT ![o] = None]
    /\ UNCHANGED shape_keys
    /\ UNCHANGED notKeys

\* a property with a string or symbol key is inserted: a new key is added
\* to the shape, after the keys it has
InsertNamed(o, key) ==
    /\ Len(history[o]) < MaxInsertions
    /\ key.kind # "index"
    /\ history' = [history EXCEPT ![o] = Append(@, key)]
    /\ shape_keys' = [shape_keys EXCEPT ![o] =
                        IF key \in Range(@) THEN @ ELSE Append(@, key)]
    /\ own_keys' = [own_keys EXCEPT ![o] = None]
    /\ UNCHANGED index_properties
    /\ UNCHANGED notKeys

\* o.[[OwnPropertyKeys]]()
OwnPropertyKeys(o) ==
    /\ own_keys[o] = None
    /\ own_keys' = [own_keys EXCEPT ![o] =
          Some(ordinary_own_property_keys(index_properties[o], shape_keys[o]))]
    /\ UNCHANGED <<index_properties, shape_keys, history>>
    /\ UNCHANGED notKeys

NextKeys ==
    \E o \in KeyedObjects :
        \/ \E i \in 0..MaxIndex : InsertIndex(o, i)
        \/ \E key \in PropertyKeys : InsertNamed(o, key)
        \/ OwnPropertyKeys(o)

InitKeysAlone == InitKeys /\ Idle("keys")

SpecKeys == InitKeysAlone /\ [][NextKeys]_vars

\* C12: two objects that received the same sequence of property
\* insertions, with no deletions, return their keys from
\* [[OwnPropertyKeys]] in the same order.
C12_SameHistorySameKeys ==
    \A o1, o2 \in KeyedObjects :
        (/\ history[o1] = history[o2]
         /\ own_keys[o1] # None
         /\ own_keys[o2] # None) => own_keys[o1] = own_keys[o2]

\* both objects got the index keys 1 and 0 in this order, the storage of
\* the two objects keeps them in different orders, and both have returned
\* their keys
C12_Witness ==
    /\ history["a"] = <<IndexKey(1), IndexKey(0)>>
    /\ history["b"] = history["a"]
    /\ index_properties["a"] # index_properties["b"]
    /\ own_keys["a"] # None
    /\ own_keys["b"] # None

\* the place of a key among the insertions an object received: where it
\* was created
Created(o, key) ==
    CHOOSE i \in 1..Len(history[o]) :
        /\ history[o][i] = key
        /\ \A j \in 1..(i - 1) : history[o][j] # key

KindRank(key) ==
    CASE key.kind = "index" -> 1
      [] key.kind = "string" -> 2
      [] key.kind = "symbol" -> 3

\* key1 comes before key2 in the order of OrdinaryOwnPropertyKeys
ComesBefore(o, key1, key2) ==
    \/ KindRank(key1) < KindRank(key2)
    \/ key1.kind = "index" /\ key2.kind = "index" /\ key1.n < key2.n
    \/ /\ key1.kind = key2.kind
       /\ key1.kind # "index"
       /\ Created(o, key1) < Created(o, key2)

\* C22: [[OwnPropertyKeys]] of an ordinary object returns every key of the
\* object once: the array-index keys in ascending numeric order, then the
\* string keys in order of creation, then the symbol keys in order of
\* creation, so that a symbol key created before a string key still comes
\* after it.
C22_IndexesThenStringsThenSymbols ==
    \A o \in KeyedObjects :
        own_keys[o] # None =>
            LET keys == Unwrap(own_keys[o])
            IN  /\ Range(keys) = Range(history[o])
                /\ \A i, j \in 1..Len(keys) :
                      i < j => ComesBefore(o, keys[i], keys[j])

\* a symbol key was created before a string key, and the keys returned
\* have the string key first
C22_Witness ==
    /\ history["a"] = <<SymbolKey("@@s"), StringKey("q")>>
    /\ own_keys["a"] = Some(<<StringKey("q"), SymbolKey("@@s")>>)

(***************************************************************************)
(* compile_try call by call: each call the compiler makes on the           *)
(* ByteCompiler is one step, so that the state of the register allocator   *)
(* can be observed between two calls.                                      *)
(***************************************************************************)
StatementSteps ==
    compile_try_steps(statement.variant, statement.generator,
                      statement.use_expr)

NextStep == StatementSteps[compiled + 1]

\* the next call the compiler makes is of the given kind
Calls(cmd) == compiled < Len(StatementSteps) /\ NextStep.cmd = cmd

\* the compiler makes its next call
CompileStep ==
    /\ byte_compiler' = apply_step(byte_compiler, NextStep)
    /\ compiled' = compiled + 1
    /\ UNCHANGED statement
    /\ UNCHANGED notCompile

InitCompile ==
    /\ statement \in [variant : TryVariants, generator : BOOLEAN,
                      use_expr : BOOLEAN]
    /\ byte_compiler = EmptyByteCompiler
    /\ compiled = 0

Emit ==
    /\ Calls("emit")
    /\ CompileStep

EmitJump ==
    /\ Calls("jump")
    /\ CompileStep

PatchJump ==
    /\ Calls("patch_jump")
    /\ CompileStep

PushHandler ==
    /\ Calls("push_handler")
    /\ CompileStep

PatchHandler ==
    /\ Calls("patch_handler")
    /\ CompileStep

Alloc ==
    /\ Calls("alloc")
    /\ CompileStep

Dealloc ==
    /\ Calls("dealloc")
    /\ CompileStep

NextCompile ==
    \/ Emit
    \/ EmitJump
    \/ PatchJump
    \/ PushHandler
    \/ PatchHandler
    \/ Alloc
    \/ Dealloc

InitCompileAlone == InitCompile /\ Idle("compile")

SpecCompileTry == InitCompileAlone /\ [][NextCompile]_vars

Last(seq) == seq[Len(seq)]

\* the register a dealloc returns is the one granted last among those
\* still held
ReturnsLastGranted ==
    Dealloc => NextStep.instr.reg = Last(byte_compiler.register_allocator)

\* C13: registers are returned to the register allocator in the reverse of
\* the order in which they were granted; every path through the
\* compilation of a try statement, the generator variant with a finally
\* block included, releases its temporaries in reverse allocation order.
C13_ReleasedInReverseOrder == [][ReturnsLastGranted]_vars

\* C13, what the code does: outside a generator, and for a try statement
\* with a catch block, every dealloc returns the register granted last;
\* when compile_try returns, no register is left held.
C13_ReverseOrderOutsideGeneratorFinally ==
    [][(statement.variant # "Finally" \/ ~statement.generator)
            => ReturnsLastGranted]_vars

C13_AllReleasedAtTheEnd ==
    compiled = Len(StatementSteps) => byte_compiler.register_allocator = <<>>

\* try-finally in a generator, compiled up to the dealloc of error at line
\* 125: re_throw_generator, granted after error, is still held
C13_Witness ==
    /\ statement.variant = "Finally"
    /\ statement.generator
    /\ compiled < Len(StatementSteps)
    /\ NextStep = dealloc("error")
    /\ byte_compiler.register_allocator =
            <<"finally_re_throw", "error", "re_throw_generator">>

(***************************************************************************)
(* Realm::register_property on the global object of a realm.  The global   *)
(* object is an ordinary object of the heap; scripts and the host define   *)
(* and delete its properties and may make it non-extensible.               *)
(***************************************************************************)
GlobalObject == 1
Attributes == [writable : BOOLEAN, enumerable : BOOLEAN, configurable : BOOLEAN]

\* PropertyDescriptor::builder().value(value).writable(..).enumerable(..)
\*     .configurable(..)
attribute_descriptor(value, attribute) ==
    [kind |-> "Data", value |-> Some(value),
     writable |-> Some(attribute.writable), get |-> None, set |-> None,
     enumerable |-> Some(attribute.enumerable),
     configurable |-> Some(attribute.configurable)]

\* DefinePropertyOrThrow(O, P, desc): a TypeError when [[DefineOwnProperty]]
\* returns false
define_property_or_throw(props, ext, o, k, desc) ==
    ordinary_define_own_property(props, ext, o, k, desc)

\* realm.register_property(key, value, attribute, context); ret is TRUE for
\* Ok(()) and FALSE for Err
RegisterProperty(k, v, attribute) ==
    LET desc == attribute_descriptor(v, attribute)
        r == define_property_or_throw(properties, extensible, GlobalObject,
                                      k, desc)
    IN  /\ properties' = r.props
        /\ call' = [NoCall EXCEPT !.op = "register_property",
                                  !.obj = GlobalObject, !.key = k,
                                  !.value = v, !.desc = Some(desc)]
        /\ ret' = r.ok
        /\ UNCHANGED <<prototype, extensible>>
        /\ UNCHANGED notHeap

NextRealm ==
    \/ \E k \in Keys, v \in DataValues, attribute \in Attributes :
            RegisterProperty(k, v, attribute)
    \/ \E k \in Keys, desc \in AllDescriptors :
            DefineOwnProperty(GlobalObject, k, desc, FALSE)
    \/ \E k \in Keys : Delete(GlobalObject, k)
    \/ PreventExtensions(GlobalObject)

InitRealm == InitHeap /\ Idle("heap")

SpecRealm == InitRealm /\ [][NextRealm]_vars

\* register_property is called for a key the global object has
RegistersExistingKey ==
    /\ call'.op = "register_property"
    /\ properties[GlobalObject][call'.key] # None

\* C14: Realm::register_property returns an error if the global object
\* already has a property with the given key.
C14_ErrorIfAlreadyDefined ==
    [][RegistersExistingKey => ret' = FALSE]_objVars

\* C14, what the code does: for a key the global object has,
\* register_property succeeds and replaces the property whenever the
\* existing property is configurable, and returns an error whenever the
\* existing property is non-configurable and the registration asks for a
\* change of it that is forbidden.
C14_ErrorOnlyIfRedefinitionRefused ==
    [][RegistersExistingKey =>
        LET cur == Unwrap(properties[GlobalObject][call'.key])
            desc == Unwrap(call'.desc)
        IN  /\ expect_configurable(cur) =>
                /\ ret' = TRUE
                /\ properties'[GlobalObject][call'.key] = Some(desc)
            /\ (~expect_configurable(cur) /\ ForbiddenRequest(cur, desc))
                => (ret' = FALSE /\ properties' = properties)]_objVars

\* register_property has returned Ok on a global object that is not
\* extensible, so that the key was there before the call, and the property
\* now is the one registered
C14_Witness ==
    /\ call.op = "register_property"
    /\ call.value = "v1"
    /\ ret = TRUE
    /\ ~extensible[GlobalObject]
    /\ properties[GlobalObject][call.key] = call.desc

(***************************************************************************)
(* Promises combined by then, Promise.all and Promise.race, and awaited by *)
(* await_blocking.  The input promises are settled by the host; the        *)
(* promise a call of then, all or race returns is settled by the jobs its  *)
(* reactions queue.  A value is a one-element sequence, and the array      *)
(* Promise.all fulfils with is the sequence of its elements.  The derived  *)
(* promises of the then calls Promise.all and Promise.race make are not    *)
(* observable and are left out.                                            *)
(***************************************************************************)
NumInputs == 2

Inputs == 1..NumInputs
ResultPromise == NumInputs + 1
PromiseObjects == 1..(NumInputs + 1)
SettledStates == {"fulfilled", "rejected"}
HandlerKinds == {"none", "returns", "throws"}

\* the value input i is settled with, what a handler returns or throws,
\* and the error of a job that fails
InputValue(i) == <<i>>
HandlerValue == <<0>>
JobError == <<-1>>

Handler(kind, index) == [kind |-> kind, index |-> index]
\* a reaction record; its capability is always the returned promise's
Reaction(on_fulfilled, on_rejected) ==
    [on_fulfilled |-> on_fulfilled, on_rejected |-> on_rejected]
ReactionJob(reaction, from, settled, argument) ==
    [reaction |-> reaction, from |-> from, settled |-> settled,
     argument |-> argument]

Combinators ==
    [promise_objects |-> promise_objects, job_queue |-> job_queue,
     result_capability |-> result_capability,
     handler_calls |-> handler_calls, processed |-> processed]

\* PerformPromiseThen run at once: the handler is run inside then when the
\* promise is settled already
perform_promise_then_synchronously(w, p, reaction) ==
    LET pr == w.promise_objects[p] IN
    IF pr.state = "pending"
    THEN [w EXCEPT !.promise_objects[p].reactions = Append(@, reaction)]
    ELSE [w EXCEPT !.handler_calls = @ + 1,
                   !.promise_objects[ResultPromise].state = pr.state,
                   !.promise_objects[ResultPromise].value = pr.value]

\* PerformPromiseThen: a pending promise keeps the reaction, a settled one
\* queues a job for it
perform_promise_then(w, p, reaction) ==
    LET pr == w.promise_objects[p] IN
    IF pr.state = "pending"
    THEN [w EXCEPT !.promise_objects[p].reactions = Append(@, reaction)]
    ELSE [w EXCEPT !.job_queue =
                Append(@, ReactionJob(reaction, p, pr.state, pr.value))]

\* FulfillPromise and RejectPromise: the promise is settled and one job is
\* queued for each of its reactions, in their order
settle_promise(w, p, state, value) ==
    LET reactions == w.promise_objects[p].reactions IN
    [w EXCEPT !.promise_objects[p] =
                    [state |-> state, value |-> value, reactions |-> <<>>],
              !.job_queue = @ \o [i \in 1..Len(reactions) |->
                    ReactionJob(reactions[i], p, state, value)]]

\* a resolve function that settles the promise at every call
capability_resolve_at_every_call(w, value) ==
    settle_promise(w, ResultPromise, "fulfilled", value)

\* the resolving functions of the returned promise: only the first call of
\* either settles it
capability_resolve(w, value) ==
    IF w.result_capability.already_resolved THEN w
    ELSE settle_promise(
            [w EXCEPT !.result_capability.already_resolved = TRUE],
            ResultPromise, "fulfilled", value)

\* a reject function that does nothing while an input is pending
capability_reject_when_all_settled(w, reason) ==
    IF w.result_capability.already_resolved
        \/ \E i \in Inputs : w.promise_objects[i].state = "pending"
    THEN w
    ELSE settle_promise(
            [w EXCEPT !.result_capability.already_resolved = TRUE],
            ResultPromise, "rejected", reason)

capability_reject(w, reason) ==
    IF w.result_capability.already_resolved THEN w
    ELSE settle_promise(
            [w EXCEPT !.result_capability.already_resolved = TRUE],
            ResultPromise, "rejected", reason)

RECURSIVE Flatten(_)
Flatten(seqs) ==
    IF seqs = <<>> THEN <<>> ELSE Head(seqs) \o Flatten(Tail(seqs))

\* Promise.all Resolve Element Function of one position of the list
promise_all_resolve_element(w, position, x) ==
    IF position \in w.result_capability.called THEN w
    ELSE LET w1 == [w EXCEPT !.result_capability.called = @ \cup {position},
                             !.result_capability.values[position] = x,
                             !.result_capability.remaining = @ - 1]
         IN  IF w1.result_capability.remaining = 0
             THEN capability_resolve(w1, Flatten(w1.result_capability.values))
             ELSE w1

\* the handler of a reaction is called with the value the promise settled
\* with; what a handler given to then returns or throws settles the
\* promise that then returned
call_handler(w, job) ==
    LET h == IF job.settled = "fulfilled" THEN job.reaction.on_fulfilled
             ELSE job.reaction.on_rejected
    IN  CASE h.kind = "resolve_element" ->
                promise_all_resolve_element(w, h.index, job.argument)
          [] h.kind = "capability_resolve" ->
                capability_resolve(w, job.argument)
          [] h.kind = "capability_reject" ->
                capability_reject(w, job.argument)
          [] h.kind = "returns" ->
                capability_resolve([w EXCEPT !.handler_calls = @ + 1],
                                   HandlerValue)
          [] h.kind = "throws" ->
                capability_reject([w EXCEPT !.handler_calls = @ + 1],
                                  HandlerValue)
          [] OTHER ->
                IF job.settled = "fulfilled"
                THEN capability_resolve(w, job.argument)
                ELSE capability_reject(w, job.argument)

\* one job is taken from the queue and run
run_job(w) ==
    LET job == Head(w.job_queue) IN
    call_handler([w EXCEPT !.job_queue = Tail(@),
                           !.processed = Append(@, [from |-> job.from,
                                                    settled |-> job.settled])],
                 job)

\* the first n jobs of the queue are run
RECURSIVE run_n_jobs(_, _)
run_n_jobs(w, n) ==
    IF n = 0 \/ w.job_queue = <<>> THEN w ELSE run_n_jobs(run_job(w), n - 1)

\* the reaction Promise.all and Promise.race give to the promise at one
\* position of the list
reaction_of(kind, position) ==
    IF kind = "all"
    THEN Reaction(Handler("resolve_element", position),
                  Handler("capability_reject", 0))
    ELSE Reaction(Handler("capability_resolve", 0),
                  Handler("capability_reject", 0))

\* each promise of the list is given its reaction, in the order of the list
RECURSIVE then_each(_, _, _, _)
then_each(w, list, position, kind) ==
    IF position > Len(list) THEN w
    ELSE then_each(perform_promise_then(w, list[position],
                                        reaction_of(kind, position)),
                   list, position + 1, kind)

\* Promise.all(promises)
promise_all(w, list) ==
    then_each([w EXCEPT !.result_capability.remaining = Len(list)],
              list, 1, "all")

\* Promise.race(promises)
promise_race(w, list) == then_each(w, list, 1, "race")

\* the lists of all the input promises, in any order
InputLists ==
    {list \in [1..NumInputs -> Inputs] :
        \A i, j \in 1..NumInputs : list[i] = list[j] => i = j}

\* the inputs that are settled
SettledInputs == {i \in Inputs : promise_objects[i].state # "pending"}

\* the call that made the returned promise: its kind, its list of
\* promises, and the inputs that were settled when it was made
NoCombinator == [kind |-> "none", list |-> <<>>, settled_at_call |-> {}]
Combinator(kind, list) ==
    [kind |-> kind, list |-> list, settled_at_call |-> SettledInputs]

InitCombinators ==
    /\ promise_objects = [p \in PromiseObjects |->
            [state |-> "pending", value |-> <<>>, reactions |-> <<>>]]
    /\ job_queue = <<>>
    /\ result_capability =
            [already_resolved |-> FALSE, called |-> {},
             values |-> [i \in 1..NumInputs |-> <<>>], remaining |-> 0]
    /\ handler_calls = 0
    /\ processed = <<>>
    /\ combinator = NoCombinator
    /\ settle_log = <<>>
    /\ await_ret = None

CommitCombinators(w) ==
    /\ promise_objects' = w.promise_objects
    /\ job_queue' = w.job_queue
    /\ result_capability' = w.result_capability
    /\ handler_calls' = w.handler_calls
    /\ processed' = w.processed

\* the host settles an input promise
SettleInput(i, state) ==
    /\ await_ret = None
    /\ promise_objects[i].state = "pending"
    /\ CommitCombinators(settle_promise(Combinators, i, state, InputValue(i)))
    /\ settle_log' = Append(settle_log, i)
    /\ UNCHANGED <<combinator, await_ret>>
    /\ UNCHANGED notCombinators

\* JsPromise::all(promises, context)
All(list) ==
    /\ await_ret = None
    /\ combinator = NoCombinator
    /\ CommitCombinators(promise_all(Combinators, list))
    /\ combinator' = Combinator("all", list)
    /\ UNCHANGED <<settle_log, await_ret>>
    /\ UNCHANGED notCombinators

\* JsPromise::race(promises, context)
Race(list) ==
    /\ await_ret = None
    /\ combinator = NoCombinator
    /\ CommitCombinators(promise_race(Combinators, list))
    /\ combinator' = Combinator("race", list)
    /\ UNCHANGED <<settle_log, await_ret>>
    /\ UNCHANGED notCombinators

\* promise.then(on_fulfilled, on_rejected, context)
Then(p, on_fulfilled, on_rejected) ==
    /\ await_ret = None
    /\ combinator = NoCombinator
    /\ CommitCombinators(perform_promise_then(Combinators, p,
            Reaction(Handler(on_fulfilled, 0), Handler(on_rejected, 0))))
    /\ combinator' = Combinator("then", <<p>>)
    /\ UNCHANGED <<settle_log, await_ret>>
    /\ UNCHANGED notCombinators

\* the job executor runs the first job of the queue
RunJob ==
    /\ await_ret = None
    /\ job_queue # <<>>
    /\ CommitCombinators(run_job(Combinators))
    /\ UNCHANGED <<combinator, settle_log, await_ret>>
    /\ UNCHANGED notCombinators

\* await_blocking on a settled promise: Ok(f) when Fulfilled(f), and it
\* would be Ok(r) when Rejected(r)
await_outcome_always_ok(pr) == [ok |-> TRUE, value |-> pr.value]

\* await_blocking on a settled promise: Ok(f) when Fulfilled(f), Err(r)
\* when Rejected(r)
await_outcome(pr) == [ok |-> pr.state = "fulfilled", value |-> pr.value]

\* what await_blocking returned, with the state the promise had then
AwaitReturn(w, p, outcome, run_jobs_failed) ==
    [promise |-> p, ok |-> outcome.ok, value |-> outcome.value,
     state |-> w.promise_objects[p].state,
     settled_value |-> w.promise_objects[p].value,
     run_jobs_failed |-> run_jobs_failed]

\* context.run_jobs() returning Ok: every job of the queue has been run
run_jobs(w) == run_n_jobs(w, Len(w.job_queue))

\* context.run_jobs() returning Err: the jobs before the one at position
\* failing have been run, that job has failed
run_jobs_err(w, failing) ==
    [run_n_jobs(w, failing - 1) EXCEPT !.job_queue = Tail(@)]

\* promise.await_blocking(context).  While the promise is pending
\* run_jobs is called, and its error is returned as it is; a promise that
\* stays pending with no job left keeps the loop turning and nothing is
\* returned.
AwaitBlocking(p) ==
    /\ await_ret = None
    /\ \/ /\ promise_objects[p].state # "pending"
          /\ await_ret' = Some(AwaitReturn(Combinators, p,
                                await_outcome(promise_objects[p]), FALSE))
          /\ UNCHANGED <<promise_objects, job_queue, result_capability,
                         handler_calls, processed>>
       \/ /\ promise_objects[p].state = "pending"
          /\ LET w == run_jobs(Combinators) IN
                /\ w.promise_objects[p].state # "pending"
                /\ CommitCombinators(w)
                /\ await_ret' = Some(AwaitReturn(w, p,
                                    await_outcome(w.promise_objects[p]), FALSE))
       \/ /\ promise_objects[p].state = "pending"
          /\ \E failing \in 1..Len(job_queue) :
                LET w == run_jobs_err(Combinators, failing) IN
                /\ CommitCombinators(w)
                /\ await_ret' = Some(AwaitReturn(w, p,
                                    [ok |-> FALSE, value |-> JobError], TRUE))
    /\ UNCHANGED <<combinator, settle_log>>
    /\ UNCHANGED notCombinators

NextCombinators ==
    \/ \E i \in Inputs, state \in SettledStates : SettleInput(i, state)
    \/ \E list \in InputLists : All(list)
    \/ \E list \in InputLists : Race(list)
    \/ \E p \in Inputs, on_fulfilled, on_rejected \in HandlerKinds :
            Then(p, on_fulfilled, on_rejected)
    \/ RunJob
    \/ \E p \in PromiseObjects : AwaitBlocking(p)

InitCombinatorsAlone == InitCombinators /\ Idle("comb")

SpecCombinators == InitCombinatorsAlone /\ [][NextCombinators]_vars

Awaited == Unwrap(await_ret)

Returned == promise_objects[ResultPromise]

\* the positions of the jobs run for a rejected input
RejectionsProcessed ==
    {n \in 1..Len(processed) : processed[n].settled = "rejected"}
FirstRejectionProcessed ==
    processed[CHOOSE n \in RejectionsProcessed :
                \A m \in RejectionsProcessed : n <= m]

FirstSettledAtCall ==
    combinator.list[CHOOSE n \in 1..Len(combinator.list) :
        /\ combinator.list[n] \in combinator.settled_at_call
        /\ \A m \in 1..(n - 1) :
                combinator.list[m] \notin combinator.settled_at_call]
RaceWinner ==
    IF combinator.settled_at_call # {} THEN FirstSettledAtCall
    ELSE settle_log[1]

SameOutcome(p, q) ==
    /\ promise_objects[p].state = promise_objects[q].state
    /\ promise_objects[p].value = promise_objects[q].value

\* C17, as stated: the promise returned by Promise.race settles with the
\* outcome of whichever input promise settles first in time, independent
\* of the inputs' order in the list; later settlements of other inputs do
\* not change it.
C17_RaceTakesFirstSettledInTime ==
    (combinator.kind = "race" /\ Returned.state # "pending") =>
        SameOutcome(ResultPromise, settle_log[1])

\* C17, amended: the promise returned by Promise.race settles, as soon as
\* a job of an input has run, with the outcome of the first input of the
\* list that was settled when race was called, or, when none was, of the
\* input that settles first in time; later settlements do not change it.
C17_RaceTakesFirstProcessed ==
    combinator.kind = "race" =>
        /\ Returned.state # "pending" <=> processed # <<>>
        /\ processed # <<>> =>
                /\ processed[1].from = RaceWinner
                /\ SameOutcome(ResultPromise, RaceWinner)

\* race was called on two pending inputs; input 2, the last of the list,
\* settled first and the returned promise took its outcome; input 1 has
\* settled since with another outcome
C17_Witness ==
    /\ combinator.kind = "race"
    /\ combinator.list = <<1, 2>>
    /\ combinator.settled_at_call = {}
    /\ settle_log = <<2, 1>>
    /\ promise_objects[1].state # promise_objects[2].state
    /\ SameOutcome(ResultPromise, 2)
    /\ job_queue = <<>>

\* then returns
ThenCallReturns == combinator.kind = "none" /\ combinator'.kind = "then"

\* C18: the promise returned by then is pending at the moment then
\* returns, whatever the state of the original promise: when the original
\* is already settled the handler runs only later as a queued job, never
\* synchronously inside then.
C18_ThenReturnsPending ==
    /\ [][ThenCallReturns =>
            /\ promise_objects'[ResultPromise].state = "pending"
            /\ handler_calls' = handler_calls
            /\ combinator'.list[1] \in combinator'.settled_at_call =>
                    Len(job_queue') = Len(job_queue) + 1]_vars
    /\ [](handler_calls > 0 => processed # <<>>)

\* then has returned for an original that was settled: the returned
\* promise is pending, the job is queued and no handler has run
C18_Witness ==
    /\ combinator.kind = "then"
    /\ combinator.list[1] \in combinator.settled_at_call
    /\ Returned.state = "pending"
    /\ job_queue # <<>>
    /\ handler_calls = 0

(***************************************************************************)
(* WeakRef after the end of the turn.                                      *)
(***************************************************************************)
\* boa_gc::force_collect(): a collection that frees every unreachable
\* object
ForceCollect ==
    /\ alive' = alive \ Unreachable
    /\ roots' = roots
    /\ kept_alive' = kept_alive

NoStrongReference(ref) ==
    weak_refs[ref] # None /\ weak_refs[ref] \cap roots = {}

\* C19: after the kept-alive list has been cleared at the end of a turn and
\* a garbage collection has run, deref() on a WeakRef whose target has no
\* remaining strong reference returns undefined: a full collection that
\* finds kept_alive empty collects every such target, a collected object
\* never comes back, and deref of a WeakRef whose target is collected
\* returns undefined.
C19_DerefUndefinedAfterCollection ==
    /\ [][(kept_alive = <<>> /\ ForceCollect) =>
            \A ref \in WeakRefs :
                NoStrongReference(ref) => weak_refs[ref] \cap alive' = {}]_vars
    /\ [][alive' \subseteq alive]_vars
    /\ [][\A ref \in WeakRefs :
            (DerefOf(ref) /\ weak_refs[ref] \cap alive = {})
                => deref_ret'.result = None]_vars

\* a WeakRef was constructed, the turn ended, its target lost its last
\* strong reference and was collected, and deref returned undefined
C19_Witness ==
    /\ deref_ret.ref \in WeakRefs
    /\ deref_ret.result = None
    /\ NoStrongReference(deref_ret.ref)
    /\ weak_refs[deref_ret.ref] \cap alive = {}
    /\ kept_alive = <<>>

(***************************************************************************)
(* CoverParenthesizedExpressionAndArrowParameterList.  The parser reads    *)
(* the tokens after the opening parenthesis one decision at a time.  An    *)
(* expression and a binding pattern are each one token here: "ident" is    *)
(* an identifier, "{" and "[" an object and an array literal or pattern,   *)
(* "expr" any other expression; "LT=>" is an arrow that a line terminator  *)
(* precedes, ";" a token that starts none of these, "eof" the end of the   *)
(* input.  The check for a yield expression in the parameters is left out. *)
(***************************************************************************)
ParenTokens == {"ident", "expr", "{", "[", "...", ",", ")", "=>", "LT=>",
                ";", "eof"}
ExpressionTokens == {"ident", "expr", "{", "["}

InnerExpression(kind, token) == [kind |-> kind, token |-> token]

\* the binding parsed after "...": a pattern or a BindingIdentifier
spread_element(token) ==
    CASE token = "{" -> Some(InnerExpression("SpreadObject", token))
      [] token = "[" -> Some(InnerExpression("SpreadArray", token))
      [] token = "ident" -> Some(InnerExpression("SpreadBinding", token))
      [] OTHER -> None

\* the next token is an arrow, whatever precedes it
is_arrow_ignoring_line_terminator(token) == token \in {"=>", "LT=>"}

\* is_arrow: the next token is an arrow and no line terminator precedes it
is_arrow(token) == token = "=>"

\* expression_to_formal_parameters succeeds on identifiers and on literals
\* that are patterns
to_formal_parameter(expression) ==
    expression.kind # "Expression" \/ expression.token # "expr"

has_rest_parameter(exprs) ==
    \E i \in 1..Len(exprs) : exprs[i].kind # "Expression"

\* what parse returns once the list is closed and the next token is known
finish(exprs, comma, next) ==
    IF ~is_arrow(next)
    THEN CASE comma -> "Error"
           [] exprs = <<>> -> "Error"
           [] Len(exprs) # 1 -> "Error"
           [] exprs[1].kind = "Expression" -> "Parenthesized"
           [] OTHER -> "Error"
    ELSE CASE \E i \in 1..Len(exprs) : ~to_formal_parameter(exprs[i]) ->
                "Error"
           [] comma /\ has_rest_parameter(exprs) -> "Error"
           [] OTHER -> "FormalParameterList"

InitParen ==
    /\ cursor = <<>>
    /\ lookahead = "-"
    /\ parse_pc = "open"
    /\ expressions = <<>>
    /\ tailing_comma = FALSE
    /\ parse_ret = "-"

\* parse returns an error at the token
ParseError(token) ==
    /\ cursor' = Append(cursor, token)
    /\ parse_pc' = "done"
    /\ parse_ret' = "Error"
    /\ UNCHANGED <<lookahead, expressions, tailing_comma>>

\* the token is consumed and the parser goes on
Advance(token, to) ==
    /\ cursor' = Append(cursor, token)
    /\ parse_pc' = to
    /\ UNCHANGED <<lookahead, parse_ret>>

\* the first token after the opening parenthesis
Open(token) ==
    /\ parse_pc = "open"
    /\ CASE token = ")" ->
                Advance(token, "arrow") /\ UNCHANGED <<expressions, tailing_comma>>
         [] token = "..." ->
                Advance(token, "spread") /\ UNCHANGED <<expressions, tailing_comma>>
         [] token \in ExpressionTokens ->
                /\ Advance(token, "after_expression")
                /\ expressions' =
                        Append(expressions, InnerExpression("Expression", token))
                /\ UNCHANGED tailing_comma
         [] OTHER -> ParseError(token)
    /\ UNCHANGED notParen

\* the binding after "..."
Spread(token) ==
    /\ parse_pc = "spread"
    /\ IF spread_element(token) # None
       THEN /\ Advance(token, "close")
            /\ expressions' = Append(expressions, Unwrap(spread_element(token)))
            /\ UNCHANGED tailing_comma
       ELSE ParseError(token)
    /\ UNCHANGED notParen

\* cursor.expect(Punctuator::CloseParen) after a rest element
ExpectCloseParen(token) ==
    /\ parse_pc = "close"
    /\ IF token = ")"
       THEN Advance(token, "arrow") /\ UNCHANGED <<expressions, tailing_comma>>
       ELSE ParseError(token)
    /\ UNCHANGED notParen

\* the token after the expression
AfterExpression(token) ==
    /\ parse_pc = "after_expression"
    /\ CASE token = ")" ->
                Advance(token, "arrow") /\ UNCHANGED <<expressions, tailing_comma>>
         [] token = "," ->
                Advance(token, "after_comma")
                    /\ UNCHANGED <<expressions, tailing_comma>>
         [] OTHER -> ParseError(token)
    /\ UNCHANGED notParen

\* the token after the comma
AfterComma(token) ==
    /\ parse_pc = "after_comma"
    /\ CASE token = ")" ->
                /\ Advance(token, "arrow")
                /\ tailing_comma' = TRUE
                /\ UNCHANGED expressions
         [] token = "..." ->
                Advance(token, "spread") /\ UNCHANGED <<expressions, tailing_comma>>
         [] OTHER -> ParseError(token)
    /\ UNCHANGED notParen

\* the list is closed: the next token is peeked and parse returns
Close(token) ==
    /\ parse_pc = "arrow"
    /\ token # "-"
    /\ lookahead' = token
    /\ parse_pc' = "done"
    /\ parse_ret' = finish(expressions, tailing_comma, token)
    /\ UNCHANGED <<cursor, expressions, tailing_comma>>
    /\ UNCHANGED notParen

NextParen ==
    \E token \in ParenTokens :
        \/ Open(token)
        \/ Spread(token)
        \/ ExpectCloseParen(token)
        \/ AfterExpression(token)
        \/ AfterComma(token)
        \/ Close(token)

InitParenAlone == InitParen /\ Idle("paren")

SpecParen == InitParenAlone /\ [][NextParen]_vars

\* the tokens between the parentheses, once the list is closed
Contents == SubSeq(cursor, 1, Len(cursor) - 1)
Closed == parse_pc = "done" /\ lookahead # "-"

\* C20: a parenthesised list is turned into an arrow-function parameter
\* list only if the next token is "=>" with no line terminator before it;
\* in every other case it is accepted only if it contains exactly one
\* expression with no rest element and no trailing comma, and is otherwise
\* a syntax error.
C20_ArrowOrSingleExpression ==
    /\ parse_ret = "FormalParameterList" => lookahead = "=>"
    /\ (Closed /\ lookahead # "=>") =>
            /\ parse_ret \in {"Parenthesized", "Error"}
            /\ parse_ret = "Parenthesized" <=>
                    \E token \in ExpressionTokens : Contents = <<token>>

\* "(a)" followed by a line terminator and an arrow is a parenthesised
\* expression, not a parameter list
C20_Witness ==
    /\ Contents = <<"ident">>
    /\ lookahead = "LT=>"
    /\ parse_ret = "Parenthesized"

(***************************************************************************)
(* [[Call]] and [[Construct]] (object/internal_methods/mod.rs).  Every     *)
(* object points to a table of internal methods; the table of an ordinary  *)
(* object holds non_existant_call and non_existant_construct, the tables   *)
(* of function objects replace one or both of them.                        *)
(***************************************************************************)
TypeError(message) == [ok |-> FALSE, kind |-> "TypeError", message |-> message]
Complete == [ok |-> TRUE, kind |-> "-", message |-> "-"]

non_existant_call_completes == Complete

non_existant_call == TypeError("not a callable function")

non_existant_construct == TypeError("not a constructor")

\* the table of an ordinary object, and the tables of a function that is
\* not a constructor (such as Function.prototype) and of a constructor
ORDINARY_INTERNAL_METHODS ==
    [__call__ |-> "non_existant_call",
     __construct__ |-> "non_existant_construct"]

InternalObjectMethods ==
    [ORDINARY |-> ORDINARY_INTERNAL_METHODS,
     FUNCTION |-> [__call__ |-> "function_call",
                   __construct__ |-> "non_existant_construct"],
     CONSTRUCTOR |-> [__call__ |-> "function_call",
                      __construct__ |-> "function_construct"]]

VTables == DOMAIN InternalObjectMethods

\* CallValue::resolve: runs the function the table holds
resolve(func) ==
    CASE func = "non_existant_call" -> non_existant_call
      [] func = "non_existant_construct" -> non_existant_construct
      [] OTHER -> Complete

InitCallable ==
    /\ vtable \in [Objects -> VTables]
    /\ call_value = [method |-> "-", object |-> 0, result |-> Complete]

\* object.__call__(argument_count).resolve(context)
CallObject(o) ==
    /\ call_value' = [method |-> "__call__", object |-> o,
                      result |-> resolve(InternalObjectMethods[vtable[o]].__call__)]
    /\ UNCHANGED vtable
    /\ UNCHANGED notCallable

\* object.__construct__(argument_count).resolve(context)
ConstructObject(o) ==
    /\ call_value' = [method |-> "__construct__", object |-> o,
                      result |-> resolve(InternalObjectMethods[vtable[o]].__construct__)]
    /\ UNCHANGED vtable
    /\ UNCHANGED notCallable

NextCallable ==
    \E o \in Objects :
        \/ CallObject(o)
        \/ ConstructObject(o)

InitCallableAlone == InitCallable /\ Idle("callable")

SpecCallable == InitCallableAlone /\ [][NextCallable]_vars

\* an object has [[Call]] / [[Construct]] when its table replaces the
\* function an ordinary object holds in that slot
is_callable(o) ==
    InternalObjectMethods[vtable[o]].__call__ # ORDINARY_INTERNAL_METHODS.__call__
is_constructor(o) ==
    InternalObjectMethods[vtable[o]].__construct__
        # ORDINARY_INTERNAL_METHODS.__construct__

\* C21: calling an object that has no [[Call]] internal method, and
\* constructing with an object that has no [[Construct]] internal method,
\* throws a TypeError.
C21_NonCallableThrowsTypeError ==
    /\ (call_value.method = "__call__" /\ ~is_callable(call_value.object))
           => (~call_value.result.ok /\ call_value.result.kind = "TypeError")
    /\ (call_value.method = "__construct__"
            /\ ~is_constructor(call_value.object))
           => (~call_value.result.ok /\ call_value.result.kind = "TypeError")

\* Function.prototype is called and returns, then is used as a constructor
\* and throws (builtins/function/tests.rs, function_prototype)
C21_Witness ==
    /\ call_value.method = "__construct__"
    /\ is_callable(call_value.object)
    /\ ~is_constructor(call_value.object)
    /\ call_value.result = TypeError("not a constructor")
    /\ \E o \in Objects : ~is_callable(o)

(***************************************************************************)
(* into_js_function_unsafe (interop/into_js_function_impls.rs): the FnMut  *)
(* closure is put in a RefCell and the native function borrows it mutably  *)
(* for the time of each invocation.  The closure may call back into the    *)
(* engine, which may invoke the same native function again.                *)
(***************************************************************************)
MaxInvocations == 3

\* the four closure signatures the macro implements the conversion for
Signatures == {"Args", "ArgsRest", "ArgsContext", "ArgsRestContext"}

RecursiveCallError == "recursive calls to this function not supported"

\* RefCell::try_borrow_mut: an error while the cell is borrowed
try_borrow_mut(cell) == IF cell THEN "Err" ELSE "Ok"

\* RefCell::borrow_mut: panics while the cell is borrowed
borrow_mut(cell) == IF cell THEN "panic" ELSE "Ok"

\* how the native function of each signature borrows the closure
borrow_closure(sig, cell) ==
    IF sig \in {"Args", "ArgsRest"} THEN try_borrow_mut(cell)
    ELSE borrow_mut(cell)

InitNative ==
    /\ signature \in Signatures
    /\ borrowed = FALSE
    /\ invocations = <<>>
    /\ in_closure = FALSE
    /\ panicked = FALSE

CanInvoke ==
    /\ ~panicked
    /\ Len(invocations) + (IF in_closure THEN 1 ELSE 0) < MaxInvocations

\* the native function is invoked and an argument does not convert:
\* try_from_js_argument(this, rest, ctx)? returns before the borrow
ArgumentError ==
    /\ CanInvoke
    /\ invocations' = Append(invocations, "argument error")
    /\ UNCHANGED <<signature, borrowed, in_closure, panicked>>
    /\ UNCHANGED notNative

\* the native function is invoked, borrows the closure and enters it
EnterClosure ==
    /\ CanInvoke
    /\ borrow_closure(signature, borrowed) = "Ok"
    /\ borrowed' = TRUE
    /\ in_closure' = TRUE
    /\ UNCHANGED <<signature, invocations, panicked>>
    /\ UNCHANGED notNative

\* the native function is invoked while the closure is borrowed, and the
\* borrow is refused
RefuseRecursiveCall ==
    /\ CanInvoke
    /\ borrow_closure(signature, borrowed) = "Err"
    /\ invocations' = Append(invocations, RecursiveCallError)
    /\ UNCHANGED <<signature, borrowed, in_closure, panicked>>
    /\ UNCHANGED notNative

\* the native function is invoked while the closure is borrowed, and the
\* borrow panics
PanicOnRecursiveCall ==
    /\ CanInvoke
    /\ borrow_closure(signature, borrowed) = "panic"
    /\ panicked' = TRUE
    /\ UNCHANGED <<signature, borrowed, invocations, in_closure>>
    /\ UNCHANGED notNative

\* the closure returns, its result is converted by try_into_js_result and
\* the borrow ends
LeaveClosure(result) ==
    /\ ~panicked
    /\ in_closure
    /\ borrowed' = FALSE
    /\ in_closure' = FALSE
    /\ invocations' = Append(invocations, result)
    /\ UNCHANGED <<signature, panicked>>
    /\ UNCHANGED notNative

NextNative ==
    \/ ArgumentError
    \/ EnterClosure
    \/ RefuseRecursiveCall
    \/ PanicOnRecursiveCall
    \/ \E result \in {"ok", "closure error"} : LeaveClosure(result)

InitNativeAlone == InitNative /\ Idle("native")

SpecNative == InitNativeAlone /\ [][NextNative]_vars

\* a step in which the native function is invoked while an earlier
\* invocation is inside the closure, and its arguments convert
InvokedWhileRunning ==
    /\ in_closure
    /\ CanInvoke
    /\ ~ArgumentError
    /\ ~(\E result \in {"ok", "closure error"} : LeaveClosure(result))

\* C24: a native function built by into_js_function_unsafe that is invoked
\* again while an earlier invocation of it is still running returns the
\* error 'recursive calls to this function not supported' and never
\* panics, whatever the signature of the closure.
C24_RecursiveCallReturnsError ==
    /\ [](~panicked)
    /\ [][InvokedWhileRunning => invocations' = Append(invocations, RecursiveCallError)]_vars

\* C24, as far as it holds: for the closures that do not take the Context
\* the recursive invocation returns the error and nothing panics; for the
\* closures that take the Context the recursive invocation panics.
C24_ErrorWithoutContextPanicWithContext ==
    /\ [](panicked => signature \in {"ArgsContext", "ArgsRestContext"})
    /\ [][InvokedWhileRunning => IF signature \in {"Args", "ArgsRest"}
               THEN invocations' = Append(invocations, RecursiveCallError)
               ELSE panicked']_vars

\* a closure that does not take the Context was invoked while it was
\* running, the recursive invocation got the error, and the closure is
\* still running
C24_Witness ==
    /\ signature = "Args"
    /\ in_closure
    /\ invocations = <<RecursiveCallError>>
    /\ ~panicked

(***************************************************************************)
(* %SetIteratorPrototype%.next (builtins/set/set_iterator.rs).  The        *)
(* iterator holds the set, the index of the next entry and the kind of     *)
(* iteration; while an iterator holds the lock of the set, a deleted entry *)
(* keeps its place as an empty entry and new elements go to the end.       *)
(***************************************************************************)
MaxEntries == 3
MaxNexts == 3

SetValues == {1, 2}
IterationKinds == {"Value", "KeyAndValue"}

create_iter_result_object(value, done) == [value |-> value, done |-> done]

\* set_iterator.iterated_set = JsValue::undefined()
exhaust_keeping_the_set(it) == it

exhaust(it) == [it EXCEPT !.iterated_set = "undefined"]

\* the while loop of next: the first entry at or after index that is not
\* empty, and the index after it; next_index follows index
RECURSIVE scan(_, _)
scan(set, index) ==
    IF index < Len(set)
    THEN IF set[index + 1] # None
         THEN [found |-> TRUE, value |-> Unwrap(set[index + 1]),
               next_index |-> index + 1]
         ELSE scan(set, index + 1)
    ELSE [found |-> FALSE, value |-> 0, next_index |-> index]

\* SetIterator::next: the iterator after the call and the result returned
next(it, set) ==
    IF it.iterated_set = "undefined"
    THEN [it |-> it, result |-> create_iter_result_object(<<>>, TRUE)]
    ELSE LET e == scan(set, it.next_index)
         IN  IF e.found
             THEN [it |-> [it EXCEPT !.next_index = e.next_index],
                   result |-> create_iter_result_object(
                       IF it.iteration_kind = "Value" THEN <<e.value>>
                       ELSE <<e.value, e.value>>, FALSE)]
             ELSE [it |-> exhaust([it EXCEPT !.next_index = e.next_index]),
                   result |-> create_iter_result_object(<<>>, TRUE)]

\* create_set_iterator(set, kind, lock) on a set with any elements
InitSetIter ==
    /\ entries \in {<<>>, <<Some(1)>>, <<Some(2), Some(1)>>}
    /\ \E kind \in IterationKinds :
          set_iterator = [iterated_set |-> "set", next_index |-> 0,
                          iteration_kind |-> kind]
    /\ next_results = <<>>

Has(value) == \E i \in 1..Len(entries) : entries[i] = Some(value)

\* set.add(value)
SetAdd(value) ==
    /\ ~Has(value)
    /\ Len(entries) < MaxEntries
    /\ entries' = Append(entries, Some(value))
    /\ UNCHANGED <<set_iterator, next_results>>
    /\ UNCHANGED notSetIter

\* set.delete(value)
SetDelete(value) ==
    /\ Has(value)
    /\ entries' = [i \in 1..Len(entries) |->
                     IF entries[i] = Some(value) THEN None ELSE entries[i]]
    /\ UNCHANGED <<set_iterator, next_results>>
    /\ UNCHANGED notSetIter

\* iterator.next()
SetIteratorNext ==
    /\ Len(next_results) < MaxNexts
    /\ set_iterator' = next(set_iterator, entries).it
    /\ next_results' = Append(next_results, next(set_iterator, entries).result)
    /\ UNCHANGED entries
    /\ UNCHANGED notSetIter

NextSetIter ==
    \/ \E value \in SetValues : SetAdd(value)
    \/ \E value \in SetValues : SetDelete(value)
    \/ SetIteratorNext

InitSetIterAlone == InitSetIter /\ Idle("setiter")

SpecSetIter == InitSetIterAlone /\ [][NextSetIter]_vars

\* C25: once next() on a Set iterator has returned done = true, every
\* later next() on that iterator returns value undefined with done = true,
\* even if elements are added to the set afterwards.
C25_DoneStaysDone ==
    \A i, j \in 1..Len(next_results) :
        (i < j /\ next_results[i].done) =>
            next_results[j] = create_iter_result_object(<<>>, TRUE)

\* next() returned done, an element was added to the set after that, and
\* next() was called again
C25_Witness ==
    /\ Len(next_results) >= 2
    /\ next_results[Len(next_results) - 1].done
    /\ \E i \in 1..Len(entries) :
          /\ entries[i] # None
          /\ i > set_iterator.next_index

(***************************************************************************)
(* RegExp.prototype[@@match] and RegExp.prototype[@@search] on a RegExp    *)
(* whose exec is the built-in one, so that RegExpExec is RegExpBuiltinExec *)
(* and no user code runs inside the two methods.  The matcher is any       *)
(* matcher, as above.                                                      *)
(***************************************************************************)
NegativeZeroIndex == [kind |-> "negzero", n |-> 0]
RxLastIndexValues == LastIndexValues \cup {NegativeZeroIndex}

\* the number of code units of the code point at an index of the input
CodeUnitCounts == {1, 2}

\* an index that is never advanced
advance_string_index_stays(length, index, unicode, code_unit_count) == index

advance_string_index(length, index, unicode, code_unit_count) ==
    IF ~unicode THEN index + 1
    ELSE IF index + 1 > length THEN index + 1
    ELSE index + code_unit_count

\* Set(rx, "lastIndex", value, true)
set_property(prop, value) ==
    IF prop.writable
    THEN [ok |-> TRUE, prop |-> [prop EXCEPT !.value = value]]
    ELSE [ok |-> FALSE, prop |-> prop]

\* one turn of the loop of match (step 6.e): what it returns, if it
\* returns, lastIndex after it, and whether the match was empty
match_iteration(flags, prop, length, r, n, code_unit_count) ==
    LET out == abstract_builtin_exec(flags, prop, length, r)
    IN  CASE out.result = "TypeError" ->
                [returns |-> "TypeError", prop |-> out.prop, empty |-> FALSE]
          [] out.result = "null" ->
                [returns |-> IF n = 0 THEN "null" ELSE "array",
                 prop |-> out.prop, empty |-> FALSE]
          [] Unwrap(r).start # Unwrap(r).end ->
                [returns |-> "-", prop |-> out.prop, empty |-> FALSE]
          [] OTHER ->
                LET this_index == Unwrap(to_length(out.prop.value))
                    next_index == advance_string_index(length, this_index,
                                      flags.unicode, code_unit_count)
                    set == set_property(out.prop, Integer(next_index))
                IN  [returns |-> IF set.ok THEN "-" ELSE "TypeError",
                     prop |-> set.prop, empty |-> TRUE]

\* search that leaves lastIndex as exec left it
search_without_restoring(flags, prop, length, r) ==
    LET previous_last_index == prop.value
        zeroed == IF ~same_value(previous_last_index, Integer(0))
                  THEN set_property(prop, Integer(0))
                  ELSE [ok |-> TRUE, prop |-> prop]
    IN  IF ~zeroed.ok THEN [result |-> "TypeError", prop |-> zeroed.prop]
        ELSE abstract_builtin_exec(flags, zeroed.prop, length, r)

\* RegExp::search: what it returns and lastIndex after it
search(flags, prop, length, r) ==
    LET previous_last_index == prop.value
        zeroed == IF ~same_value(previous_last_index, Integer(0))
                  THEN set_property(prop, Integer(0))
                  ELSE [ok |-> TRUE, prop |-> prop]
    IN  IF ~zeroed.ok THEN [result |-> "TypeError", prop |-> zeroed.prop]
        ELSE
        LET out == abstract_builtin_exec(flags, zeroed.prop, length, r)
        IN  IF out.result = "TypeError" THEN out
            ELSE
            LET current_last_index == out.prop.value
                restored ==
                    IF ~same_value(current_last_index, previous_last_index)
                    THEN set_property(out.prop, previous_last_index)
                    ELSE [ok |-> TRUE, prop |-> out.prop]
            IN  IF ~restored.ok
                THEN [result |-> "TypeError", prop |-> restored.prop]
                ELSE [result |-> IF out.result = "null" THEN "-1"
                                 ELSE "index",
                      prop |-> restored.prop]

InitRx ==
    /\ rx_flags \in [global : BOOLEAN, sticky : BOOLEAN, unicode : BOOLEAN]
    /\ rx_last_index = [value |-> Integer(0), writable |-> TRUE]
    /\ rx_length = 0
    /\ rx_pc = "idle"
    /\ rx_n = 0
    /\ rx_empty = 0
    /\ rx_ret = [method |-> "-", result |-> "-", before |-> Integer(0),
                 searches |-> 0]

\* rx.lastIndex = v, between two calls
RxAssignLastIndex(v) ==
    /\ rx_pc # "loop"
    /\ rx_last_index.writable
    /\ rx_last_index' = [rx_last_index EXCEPT !.value = v]
    /\ UNCHANGED <<rx_flags, rx_length, rx_pc, rx_n, rx_empty, rx_ret>>
    /\ UNCHANGED notRx

\* Object.defineProperty(rx, "lastIndex", {value: v, writable: false})
RxFreezeLastIndex(v) ==
    /\ rx_pc # "loop"
    /\ rx_last_index.writable
    /\ rx_last_index' = [value |-> v, writable |-> FALSE]
    /\ UNCHANGED <<rx_flags, rx_length, rx_pc, rx_n, rx_empty, rx_ret>>
    /\ UNCHANGED notRx

\* what the matcher may return to a call that reaches it
RxMatcherResults(prop, length) == MatcherResults(rx_flags, prop, length)

\* rx[@@search](S) with S of the given length
Search(length, r) ==
    /\ rx_pc # "loop"
    /\ LET zeroed == IF rx_last_index.writable
                     THEN [rx_last_index EXCEPT !.value = Integer(0)]
                     ELSE rx_last_index
       IN  r \in RxMatcherResults(zeroed, length)
    /\ LET out == search(rx_flags, rx_last_index, length, r)
       IN  /\ rx_last_index' = out.prop
           /\ rx_ret' = [method |-> "search", result |-> out.result,
                         before |-> rx_last_index.value,
                         searches |-> 1 - rx_ret.searches]
    /\ rx_pc' = "done"
    /\ UNCHANGED <<rx_flags, rx_length, rx_n, rx_empty>>
    /\ UNCHANGED notRx

\* rx[@@match](S) on a RegExp without the global flag: one exec (step 5)
MatchOnce(length, r) ==
    /\ rx_pc # "loop"
    /\ ~rx_flags.global
    /\ r \in RxMatcherResults(rx_last_index, length)
    /\ LET out == abstract_builtin_exec(rx_flags, rx_last_index, length, r)
       IN  /\ rx_last_index' = out.prop
           /\ rx_ret' = [method |-> "match", result |-> out.result,
                         before |-> Integer(0),
                         searches |-> rx_ret.searches]
    /\ rx_pc' = "done"
    /\ UNCHANGED <<rx_flags, rx_length, rx_n, rx_empty>>
    /\ UNCHANGED notRx

\* rx[@@match](S) on a RegExp with the global flag, up to the loop:
\* lastIndex is set to 0 and n to 0 (steps 6.a to 6.d)
MatchBegin(length) ==
    /\ rx_pc # "loop"
    /\ rx_flags.global
    /\ LET set == set_property(rx_last_index, Integer(0))
       IN  /\ rx_last_index' = set.prop
           /\ rx_pc' = IF set.ok THEN "loop" ELSE "done"
           /\ rx_ret' = [method |-> "match",
                         result |-> IF set.ok THEN "-" ELSE "TypeError",
                         before |-> Integer(0),
                         searches |-> rx_ret.searches]
    /\ rx_length' = length
    /\ rx_n' = 0
    /\ rx_empty' = 0
    /\ UNCHANGED rx_flags
    /\ UNCHANGED notRx

\* one turn of the loop
MatchLoop(r, code_unit_count) ==
    /\ rx_pc = "loop"
    /\ r \in RxMatcherResults(rx_last_index, rx_length)
    /\ LET turn == match_iteration(rx_flags, rx_last_index, rx_length, r,
                                   rx_n, code_unit_count)
       IN  /\ rx_last_index' = turn.prop
           /\ rx_pc' = IF turn.returns = "-" THEN "loop" ELSE "done"
           /\ rx_ret' = [rx_ret EXCEPT !.result = turn.returns]
           /\ rx_n' = IF turn.returns = "-" THEN rx_n + 1 ELSE rx_n
           /\ rx_empty' = IF turn.empty THEN rx_empty + 1 ELSE rx_empty
    /\ UNCHANGED <<rx_flags, rx_length>>
    /\ UNCHANGED notRx

MatchTurn ==
    \E r \in {NoMatch} \cup Matches(MaxLength, 0) :
    \E code_unit_count \in CodeUnitCounts : MatchLoop(r, code_unit_count)

NextRx ==
    \/ \E v \in RxLastIndexValues : RxAssignLastIndex(v)
    \/ \E v \in RxLastIndexValues : RxFreezeLastIndex(v)
    \/ \E length \in 0..MaxLength :
       \E r \in {NoMatch} \cup Matches(length, 0) : Search(length, r)
    \/ \E length \in 0..MaxLength :
       \E r \in {NoMatch} \cup Matches(length, 0) : MatchOnce(length, r)
    \/ \E length \in 0..MaxLength : MatchBegin(length)
    \/ MatchTurn

InitRxAlone == InitRx /\ Idle("rx")

SpecRx == InitRxAlone /\ [][NextRx]_vars

\* the loop of match is code that keeps running: a turn that can be taken
\* is taken
SpecRxFair == SpecRx /\ WF_vars(MatchTurn)

\* C26: RegExp.prototype[@@match] on a RegExp with the global flag
\* terminates for every matcher and input, also when the matcher matches
\* the empty string: from one exec of the loop to the next lastIndex
\* strictly increases, and the loop is always left.
C26_MatchTerminates ==
    /\ [][(rx_pc = "loop" /\ rx_pc' = "loop")
            => /\ rx_last_index.value.kind = "int"
               /\ rx_last_index'.value.kind = "int"
               /\ rx_last_index'.value.n > rx_last_index.value.n]_vars
    /\ (rx_pc = "loop") ~> (rx_pc = "done")

\* a global match over an input of length 1 that collected two empty
\* matches and returned the array
C26_Witness ==
    /\ rx_ret.method = "match"
    /\ rx_flags.global
    /\ rx_pc = "done"
    /\ rx_ret.result = "array"
    /\ rx_length = 1
    /\ rx_empty = 2
    /\ rx_n = 2

\* a step that is a call of rx[@@search]
SearchStep == rx_ret'.searches # rx_ret.searches

\* C27: RegExp.prototype[@@search] leaves lastIndex equal (SameValue) to
\* the value it had before the call, whether a match was found, none was
\* found, or the call threw.
C27_SearchLeavesLastIndex ==
    [][SearchStep => same_value(rx_last_index'.value, rx_last_index.value)]_vars

\* a search on a global RegExp whose lastIndex was 1.5 found a match: exec
\* ran from 0 and stored the end of the match, and lastIndex is 1.5 again
C27_Witness ==
    /\ rx_flags.global
    /\ rx_ret.method = "search"
    /\ rx_ret.result = "index"
    /\ rx_ret.before = Frac(1)
    /\ rx_last_index.value = Frac(1)

(***************************************************************************)
(* Steps 17 to 19 of RegExpBuiltinExec: after a successful match n is the  *)
(* number of captures, and debug_assert! checks it against a limit.  A     *)
(* build without debug assertions does not evaluate the check.  A u64 is   *)
(* kept as two digits in base 2^16, which is enough for the counts used.   *)
(***************************************************************************)
MaxMatches == 2

Base == 65536
U64(hi, lo) == [hi |-> hi, lo |-> lo]
LessThan(a, b) == a.hi < b.hi \/ (a.hi = b.hi /\ a.lo < b.lo)

\* 2^32 - 1, the limit step 19 of ECMAScript states
TwoTo32Minus1 == U64(Base - 1, Base - 1)

\* 23u64.pow(2) - 1
asserted_limit == U64(0, 23 * 23 - 1)

\* the numbers of capture groups a pattern is given: around the limit of
\* the assertion and around 2^32 - 1
CaptureCounts ==
    {U64(0, n) : n \in {0, 1, asserted_limit.lo - 1, asserted_limit.lo,
                        asserted_limit.lo + 1, Base - 1}}
        \cup {U64(1, 0), U64(Base - 1, Base - 2), TwoTo32Minus1, U64(Base, 0)}

InitCaptures ==
    /\ capturing_groups_count \in CaptureCounts
    /\ debug_assertions \in BOOLEAN
    /\ assertions = <<>>
    /\ exec_aborted = FALSE

\* an exec whose matcher fails returns null before step 17
ExecReturnsNull ==
    /\ ~exec_aborted
    /\ Len(assertions) < MaxMatches
    /\ assertions' = Append(assertions, "no match")
    /\ UNCHANGED <<capturing_groups_count, debug_assertions, exec_aborted>>
    /\ UNCHANGED notCaptures

\* an exec whose matcher succeeds: n is the number of captures, and the
\* assertion passes or, in a build that checks it, panics
ExecMatches ==
    /\ ~exec_aborted
    /\ Len(assertions) < MaxMatches
    /\ LET n == capturing_groups_count
           holds == LessThan(n, asserted_limit)
       IN  /\ assertions' = Append(assertions,
                                   IF holds THEN "holds" ELSE "fails")
           /\ exec_aborted' = (debug_assertions /\ ~holds)
    /\ UNCHANGED <<capturing_groups_count, debug_assertions>>
    /\ UNCHANGED notCaptures

NextCaptures ==
    \/ ExecReturnsNull
    \/ ExecMatches

InitCapturesAlone == InitCaptures /\ Idle("captures")

SpecCaptures == InitCapturesAlone /\ [][NextCaptures]_vars

AssertionAlwaysHeld ==
    \A i \in 1..Len(assertions) : assertions[i] # "fails"

\* C28: the capture-count assertion of RegExpBuiltinExec holds for every
\* successful match of a RegExp with fewer than 2^32 - 1 capture groups,
\* so exec never aborts on it.
C28_AssertionHoldsBelowTwoTo32 ==
    LessThan(capturing_groups_count, TwoTo32Minus1)
        => (AssertionAlwaysHeld /\ ~exec_aborted)

\* C28, as far as it holds: the assertion holds for every successful match
\* of a RegExp with fewer than 23^2 - 1 = 528 capture groups; with more it
\* fails, and exec aborts on it in a build that checks debug assertions.
C28_AssertionHoldsBelowAssertedLimit ==
    /\ LessThan(capturing_groups_count, asserted_limit)
           => (AssertionAlwaysHeld /\ ~exec_aborted)
    /\ exec_aborted
           => (debug_assertions
               /\ ~LessThan(capturing_groups_count, asserted_limit))
    /\ (~LessThan(capturing_groups_count, asserted_limit)
            /\ \E i \in 1..Len(assertions) : assertions[i] # "no match")
           => ~AssertionAlwaysHeld

\* a RegExp with 527 capture groups matched in a build that checks debug
\* assertions, and exec did not abort
C28_Witness ==
    /\ capturing_groups_count = U64(0, 527)
    /\ debug_assertions
    /\ assertions = <<"holds">>
    /\ ~exec_aborted

(***************************************************************************)
(* NamedExports::parse and ExportSpecifier::parse                          *)
(* (parser/statement/declaration/export.rs), token by token.  An           *)
(* identifier name or keyword is the token "ident"; "as" is the identifier *)
(* as; "true" stands for the literals a ModuleExportName accepts after as  *)
(* but the list does not accept as the start of a specifier.               *)
(***************************************************************************)
MaxTokens == 6

ExportTokens == {"{", "}", ",", "ident", "as", "true", "eof"}
\* the tokens that start a specifier, and those that can follow as
SpecifierStarts == {"ident", "as"}
ModuleExportNames == {"ident", "as", "true"}

InitExport ==
    /\ export_cursor = <<>>
    /\ export_pc = "open"
    /\ export_list = 0
    /\ export_ret = "-"

Reading(at) == export_pc = at /\ Len(export_cursor) < MaxTokens

ExportReturns(result) ==
    /\ export_pc' = "done"
    /\ export_ret' = result

\* one turn of the loop of NamedExports::parse on the token peeked, with
\* list specifiers pushed so far
named_exports_loop(token, list) ==
    CASE token = "}" -> /\ ExportReturns("Ok")
                        /\ export_list' = list
      [] token = "," -> IF list = 0
                        THEN ExportReturns("Err") /\ export_list' = list
                        ELSE /\ export_pc' = "loop"
                             /\ export_list' = list
                             /\ UNCHANGED export_ret
      [] token \in SpecifierStarts ->
                        /\ export_pc' = "name"
                        /\ export_list' = list
                        /\ UNCHANGED export_ret
      [] OTHER -> ExportReturns("Err") /\ export_list' = list

\* cursor.expect(Punctuator::OpenBlock)
ExpectOpenBlock(token) ==
    /\ Reading("open")
    /\ export_cursor' = Append(export_cursor, token)
    /\ IF token = "{"
       THEN export_pc' = "loop" /\ UNCHANGED export_ret
       ELSE ExportReturns("Err")
    /\ UNCHANGED export_list
    /\ UNCHANGED notExport

\* the loop peeks a token at the start of a turn
LoopTurn(token) ==
    /\ Reading("loop")
    /\ export_cursor' = Append(export_cursor, token)
    /\ named_exports_loop(token, export_list)
    /\ UNCHANGED notExport

\* ExportSpecifier::parse after the inner name: next_if(as); with any
\* other token the specifier is pushed and the loop peeks that token
AfterInnerName(token) ==
    /\ Reading("name")
    /\ export_cursor' = Append(export_cursor, token)
    /\ IF token = "as"
       THEN /\ export_pc' = "as"
            /\ UNCHANGED <<export_list, export_ret>>
       ELSE named_exports_loop(token, export_list + 1)
    /\ UNCHANGED notExport

\* ModuleExportName::parse after as; the specifier is pushed
ExportName(token) ==
    /\ Reading("as")
    /\ export_cursor' = Append(export_cursor, token)
    /\ IF token \in ModuleExportNames
       THEN /\ export_pc' = "loop"
            /\ export_list' = export_list + 1
            /\ UNCHANGED export_ret
       ELSE ExportReturns("Err") /\ UNCHANGED export_list
    /\ UNCHANGED notExport

NextExport ==
    \E token \in ExportTokens :
        \/ ExpectOpenBlock(token)
        \/ LoopTurn(token)
        \/ AfterInnerName(token)
        \/ ExportName(token)

InitExportAlone == InitExport /\ Idle("export")

SpecExport == InitExportAlone /\ [][NextExport]_vars

\* the position after the specifier that starts at position i of ts, or 0
\* if there is none: a name, or a name, as and an export name
AfterSpecifier(ts, i) ==
    IF i > Len(ts) \/ ts[i] \notin SpecifierStarts THEN 0
    ELSE IF i + 1 <= Len(ts) /\ ts[i + 1] = "as"
         THEN IF i + 2 <= Len(ts) /\ ts[i + 2] \in ModuleExportNames
              THEN i + 3 ELSE 0
         ELSE i + 1

\* ts from position i on is the rest of an export list up to its closing
\* brace.  With separated, every specifier follows the opening brace or a
\* comma and every comma follows a specifier; without, a comma only needs
\* some specifier before it.
RECURSIVE ExportsListFrom(_, _, _, _)
ExportsListFrom(ts, i, some, separated) ==
    IF i > Len(ts) THEN FALSE
    ELSE IF ts[i] = "}" THEN i = Len(ts)
    ELSE IF ts[i] = ","
         THEN /\ some
              /\ separated => ts[i - 1] # ","
              /\ ExportsListFrom(ts, i + 1, some, separated)
    ELSE /\ AfterSpecifier(ts, i) # 0
         /\ separated => ts[i - 1] \in {"{", ","}
         /\ ExportsListFrom(ts, AfterSpecifier(ts, i), TRUE, separated)

\* '{', specifiers separated by exactly one comma, at most one trailing
\* comma, '}'
SeparatedByOneComma(ts) ==
    ts # <<>> /\ ts[1] = "{" /\ ExportsListFrom(ts, 2, FALSE, TRUE)

\* '{', specifiers and commas in any arrangement that does not start with
\* a comma, '}'
NoLeadingComma(ts) ==
    ts # <<>> /\ ts[1] = "{" /\ ExportsListFrom(ts, 2, FALSE, FALSE)

\* C29: an export list is accepted only if its specifiers are separated by
\* exactly one comma, with at most one trailing comma: a leading comma,
\* two consecutive commas and two specifiers with no comma between them
\* are rejected.
C29_AcceptedOnlyIfSeparatedByOneComma ==
    (export_pc = "done" /\ export_ret = "Ok")
        => SeparatedByOneComma(export_cursor)

\* C29, as far as it holds: every list whose specifiers are separated by
\* exactly one comma, with at most one trailing comma, is accepted, and a
\* list is accepted exactly when it does not start with a comma; commas
\* between two specifiers may be missing or repeated.
C29_AcceptedUnlessLeadingComma ==
    export_pc = "done" =>
        /\ SeparatedByOneComma(export_cursor) => export_ret = "Ok"
        /\ export_ret = "Ok" <=> NoLeadingComma(export_cursor)

\* '{ a, b, }' was accepted: two specifiers, one comma between them and one
\* trailing comma
C29_Witness ==
    /\ export_cursor = <<"{", "ident", ",", "ident", ",", "}">>
    /\ export_pc = "done"
    /\ export_ret = "Ok"
    /\ export_list = 2

====
